---- MODULE Spec2Model ----
(***************************************************************************)
(* A model of the UnixShell class (src/unnamed/part_000, the TypeScript    *)
(* source of the library) and of the ViEditor class it opens               *)
(* (src/docs/vi-editor.js).  Strings are sequences of one-character        *)
(* strings, so that split, startsWith, trim and the regular expressions    *)
(* of execute are computed character by character as the code does.        *)
(***************************************************************************)
EXTENDS Integers, Sequences, FiniteSets, TLC

VARIABLES
    fileSystem,      \* this.fileSystem['/'] : the root directory node
    currentUser,     \* this.currentUser
    currentPath,     \* this.currentPath
    environment,     \* this.environment (USER, HOME, PWD; PATH and SHELL never change)
    commandHistory,  \* this.commandHistory
    userStack,       \* this.userStack
    isPiped,         \* this._isPiped
    persistence,     \* this.persistence.enabled
    localStorage,    \* the host's localStorage items under the shell's prefix
    editor,          \* the ViEditor that openEditor constructed last
    call,            \* the last public call made by the host: [op, arg]
    ret              \* what that call returned: [thrown, val]

vars == <<fileSystem, currentUser, currentPath, environment, commandHistory,
          userStack, isPiped, persistence, localStorage, editor, call, ret>>

----------------------------------------------------------------------------
(* Strings                                                                 *)

SP == " "
NL == "\n"
SLASH == "/"

\* JavaScript's \s for the characters the model uses
IsSpace(c) == c \in {" ", "\n", "\t"}

Last(s) == s[Len(s)]
Front(s) == SubSeq(s, 1, Len(s) - 1)
DropFirst(s, n) == SubSeq(s, n + 1, Len(s))
TakeFirst(s, n) == SubSeq(s, 1, n)

\* String.prototype.startsWith
StartsWith(s, p) == Len(p) <= Len(s) /\ SubSeq(s, 1, Len(p)) = p

\* String.prototype.endsWith
EndsWith(s, p) == Len(p) <= Len(s) /\ SubSeq(s, Len(s) - Len(p) + 1, Len(s)) = p

\* String.prototype.includes for a one-character needle
HasChar(s, c) == \E i \in 1..Len(s) : s[i] = c

\* String.prototype.includes
Includes(s, p) == \E i \in 0..(Len(s) - Len(p)) : SubSeq(s, i + 1, i + Len(p)) = p

\* String.prototype.indexOf for one character, 0-based, -1 when absent
IndexOf(s, c) ==
    IF HasChar(s, c) THEN (CHOOSE i \in 1..Len(s) : s[i] = c /\ \A j \in 1..(i - 1) : s[j] # c) - 1
    ELSE -1

\* String.prototype.trim
RECURSIVE TrimLeft(_)
TrimLeft(s) == IF s # <<>> /\ IsSpace(Head(s)) THEN TrimLeft(Tail(s)) ELSE s
RECURSIVE TrimRight(_)
TrimRight(s) == IF s # <<>> /\ IsSpace(Last(s)) THEN TrimRight(Front(s)) ELSE s
Trim(s) == TrimRight(TrimLeft(s))

\* s.split(sep) for a one-character separator: every piece, the empty ones too
RECURSIVE SplitAcc(_, _, _)
SplitAcc(s, sep, cur) ==
    IF s = <<>> THEN <<cur>>
    ELSE IF Head(s) = sep THEN <<cur>> \o SplitAcc(Tail(s), sep, <<>>)
    ELSE SplitAcc(Tail(s), sep, Append(cur, Head(s)))
Split(s, sep) == SplitAcc(s, sep, <<>>)

\* Array.prototype.filter((p) => p): drop the empty strings
RECURSIVE NonEmpty(_)
NonEmpty(ps) ==
    IF ps = <<>> THEN <<>>
    ELSE IF Head(ps) = <<>> THEN NonEmpty(Tail(ps))
    ELSE <<Head(ps)>> \o NonEmpty(Tail(ps))

\* path.split('/').filter((p) => p)
PathParts(s) == NonEmpty(Split(s, SLASH))

\* Array.prototype.join
RECURSIVE Join(_, _)
Join(ps, sep) ==
    IF ps = <<>> THEN <<>>
    ELSE IF Len(ps) = 1 THEN ps[1]
    ELSE ps[1] \o sep \o Join(Tail(ps), sep)

\* s.split(/\s+/): the pieces between maximal runs of white space (an empty
\* first or last piece when s starts or ends with white space)
RECURSIVE SplitWsAcc(_, _)
SplitWsAcc(s, cur) ==
    IF s = <<>> THEN <<cur>>
    ELSE IF IsSpace(Head(s)) THEN <<cur>> \o SplitWsAcc(TrimLeft(s), <<>>)
    ELSE SplitWsAcc(Tail(s), Append(cur, Head(s)))
SplitWs(s) == SplitWsAcc(s, <<>>)

----------------------------------------------------------------------------
(* Filesystem nodes (FileSystemNode = string | FileSystemDirectory).  A    *)
(* directory keeps its entries in insertion order, as a JavaScript object  *)
(* does for non-numeric keys.                                              *)

File(content) == [k |-> "file", c |-> content, e |-> <<>>]
Dir(entries) == [k |-> "dir", c |-> <<>>, e |-> entries]
Null == [k |-> "null", c |-> <<>>, e |-> <<>>]
Entry(name, node) == [n |-> name, v |-> node]

\* typeof node === 'object' and typeof node === 'string'
IsDir(node) == node.k = "dir"
IsFile(node) == node.k = "file"

\* The function-valued properties every plain object inherits from
\* Object.prototype: <<"n","a","m","e"," ","i","n"," ","o","b","j","e","c","t">> is true for them and object[name] is a
\* function.  (The accessor __proto__ is left out of the tree walk.)
ProtoNames ==
    { <<"c","o","n","s","t","r","u","c","t","o","r">>, <<"h","a","s","O","w","n","P","r","o","p","e","r","t","y">>, <<"i","s","P","r","o","t","o","t","y","p","e","O","f">>, <<"p","r","o","p","e","r","t","y","I","s","E","n","u","m","e","r","a","b","l","e">>,
      <<"t","o","L","o","c","a","l","e","S","t","r","i","n","g">>, <<"t","o","S","t","r","i","n","g">>, <<"v","a","l","u","e","O","f">>, <<"_","_","d","e","f","i","n","e","G","e","t","t","e","r","_","_">>,
      <<"_","_","d","e","f","i","n","e","S","e","t","t","e","r","_","_">>, <<"_","_","l","o","o","k","u","p","G","e","t","t","e","r","_","_">>, <<"_","_","l","o","o","k","u","p","S","e","t","t","e","r","_","_">> }

\* an inherited function as a node; c is what string concatenation makes of it
Function(name) ==
    [k |-> "function",
     c |-> <<"f","u","n","c","t","i","o","n"," ">> \o (IF name = <<"c","o","n","s","t","r","u","c","t","o","r">> THEN <<"O","b","j","e","c","t">> ELSE name)
           \o <<"(",")"," ","{"," ","[","n","a","t","i","v","e"," ","c","o","d","e","]"," ","}">>,
     e |-> <<>>]

\* JavaScript truthiness of a node: null and the empty string are falsy
Truthy(node) == IsDir(node) \/ (IsFile(node) /\ node.c # <<>>) \/ node.k = "function"

\* Object.keys(dir).includes(name): an own entry
HasOwn(dir, name) == \E i \in 1..Len(dir.e) : dir.e[i].n = name

\* name in dir
HasKey(dir, name) == HasOwn(dir, name) \/ name \in ProtoNames

\* dir[name], for a name in dir
Child(dir, name) ==
    IF HasOwn(dir, name) THEN dir.e[CHOOSE i \in 1..Len(dir.e) : dir.e[i].n = name].v
    ELSE Function(name)

\* Object.keys(dir)
Keys(dir) == [i \in 1..Len(dir.e) |-> dir.e[i].n]

\* dir[name] = node: an existing key keeps its place, a new key goes last
SetKey(dir, name, node) ==
    IF HasOwn(dir, name)
    THEN Dir([i \in 1..Len(dir.e) |-> IF dir.e[i].n = name THEN Entry(name, node) ELSE dir.e[i]])
    ELSE Dir(Append(dir.e, Entry(name, node)))

\* delete dir[name]
RECURSIVE WithoutKey(_, _)
WithoutKey(es, name) ==
    IF es = <<>> THEN <<>>
    ELSE IF Head(es).n = name THEN WithoutKey(Tail(es), name)
    ELSE <<Head(es)>> \o WithoutKey(Tail(es), name)
DeleteKey(dir, name) == Dir(WithoutKey(dir.e, name))

\* the walk of getNode from a node along path parts
RECURSIVE Walk(_, _)
Walk(node, parts) ==
    IF parts = <<>> THEN node
    ELSE IF Truthy(node) /\ IsDir(node) /\ HasKey(node, Head(parts))
         THEN Walk(Child(node, Head(parts)), Tail(parts))
         ELSE Null

\* The tree with the directory reached along parts replaced by f-of-it: the
\* in-place mutation of a directory object that getNode returned.
RECURSIVE Update(_, _, _, _, _)
Update(node, parts, op, name, value) ==
    IF parts = <<>>
    THEN IF op = "set" THEN SetKey(node, name, value) ELSE DeleteKey(node, name)
    ELSE SetKey(node, Head(parts), Update(Child(node, Head(parts)), Tail(parts), op, name, value))

sUndefined == <<"u","n","d","e","f","i","n","e","d">>
sHomeSlash == <<"/","h","o","m","e","/">>
sRoot == <<"r","o","o","t">>
sSlashRoot == <<"/","r","o","o","t">>

\* parts.pop()! : the last part, undefined on an empty array (which then
\* serves as the property key "undefined")
PopName(parts) == IF parts = <<>> THEN sUndefined ELSE Last(parts)
PopRest(parts) == IF parts = <<>> THEN <<>> ELSE Front(parts)

----------------------------------------------------------------------------
(* The shell object as a value: sh.fs, sh.user, sh.path, sh.env, sh.hist,  *)
(* sh.stack, sh.piped.  Methods are operators from a shell value.          *)

\* the fold of resolvePath over the parts of a relative path
RECURSIVE FoldParts(_, _)
FoldParts(parts, newParts) ==
    IF newParts = <<>> THEN parts
    ELSE IF Head(newParts) = <<".", ".">>
         THEN FoldParts(IF parts = <<>> THEN <<>> ELSE Front(parts), Tail(newParts))
    ELSE IF Head(newParts) # <<".">>
         THEN FoldParts(Append(parts, Head(newParts)), Tail(newParts))
    ELSE FoldParts(parts, Tail(newParts))

resolvePathNoSlash(sh, path) ==
    LET p == IF StartsWith(path, <<"~">>) THEN sh.env.HOME \o DropFirst(path, 1) ELSE path
    IN  IF StartsWith(p, <<SLASH>>) THEN p
        ELSE Join(FoldParts(PathParts(sh.path), PathParts(p)), <<SLASH>>)

resolvePath(sh, path) ==
    LET p == IF StartsWith(path, <<"~">>) THEN sh.env.HOME \o DropFirst(path, 1) ELSE path
    IN  IF StartsWith(p, <<SLASH>>) THEN p
        ELSE <<SLASH>> \o Join(FoldParts(PathParts(sh.path), PathParts(p)), <<SLASH>>)

getNode(sh, path) == Walk(sh.fs, PathParts(resolvePath(sh, path)))

getOwner(sh, path) ==
    IF StartsWith(path, sHomeSlash \o sh.user) \/ path = sHomeSlash \o sh.user
    THEN [user |-> sh.user, group |-> sh.user]
    ELSE [user |-> sRoot, group |-> sRoot]

canWrite(sh, path) ==
    IF sh.user = sRoot THEN TRUE
    ELSE StartsWith(resolvePath(sh, path), sHomeSlash \o sh.user)

\* '/' + parts.join('/') after parts.pop()
ParentPath(path) == <<SLASH>> \o Join(PopRest(PathParts(path)), <<SLASH>>)

----------------------------------------------------------------------------
(* Command handlers.  Each returns [sh, out, thrown]: the shell after the  *)
(* handler, the returned string, and whether it raised instead.            *)

Ret(sh, out) == [sh |-> sh, out |-> out, thrown |-> FALSE]
Raise(sh, message) == [sh |-> sh, out |-> message, thrown |-> TRUE]

\* !args[0] : no first argument, or an empty one
NoArg0(args) == args = <<>> \/ args[1] = <<>>

IsQuote(c) == c \in {"\"", "'"}

\* text.replace(/^["']|["']$/g, '')
StripQuotes(text) ==
    LET a == IF text # <<>> /\ IsQuote(Head(text)) THEN Tail(text) ELSE text
    IN  IF a # <<>> /\ IsQuote(Last(a)) THEN Front(a) ELSE a

\* cd moving the shell and leaving PWD as it was
cmd_cdStalePWD(sh, args) ==
    IF NoArg0(args)
    THEN Ret([sh EXCEPT !.path = sh.env.HOME], <<>>)
    ELSE LET newPath == resolvePath(sh, args[1])
             node == getNode(sh, newPath)
         IN  IF node.k = "null"
             THEN Ret(sh, <<"c","d",":"," ">> \o args[1] \o <<":"," ","N","o"," ","s","u","c","h"," ","f","i","l","e"," ","o","r"," ","d","i","r","e","c","t","o","r","y">>)
             ELSE IF IsFile(node)
             THEN Ret(sh, <<"c","d",":"," ">> \o args[1] \o <<":"," ","N","o","t"," ","a"," ","d","i","r","e","c","t","o","r","y">>)
             ELSE Ret([sh EXCEPT !.path = newPath], <<>>)

cmd_cd(sh, args) ==
    IF NoArg0(args)
    THEN Ret([sh EXCEPT !.path = sh.env.HOME, !.env.PWD = sh.env.HOME], <<>>)
    ELSE LET newPath == resolvePath(sh, args[1])
             node == getNode(sh, newPath)
         IN  IF node.k = "null"
             THEN Ret(sh, <<"c","d",":"," ">> \o args[1] \o <<":"," ","N","o"," ","s","u","c","h"," ","f","i","l","e"," ","o","r"," ","d","i","r","e","c","t","o","r","y">>)
             ELSE IF IsFile(node)
             THEN Ret(sh, <<"c","d",":"," ">> \o args[1] \o <<":"," ","N","o","t"," ","a"," ","d","i","r","e","c","t","o","r","y">>)
             ELSE Ret([sh EXCEPT !.path = newPath, !.env.PWD = newPath], <<>>)

cmd_pwd(sh, args) == Ret(sh, sh.path)

\* cat that moves the shell into a directory it is given
cmd_catEntering(sh, args) ==
    IF NoArg0(args) THEN Ret(sh, <<"c","a","t",":"," ","m","i","s","s","i","n","g"," ","f","i","l","e"," ","o","p","e","r","a","n","d">>)
    ELSE LET node == getNode(sh, args[1])
         IN  IF node.k = "null"
             THEN Ret(sh, <<"c","a","t",":"," ">> \o args[1] \o <<":"," ","N","o"," ","s","u","c","h"," ","f","i","l","e"," ","o","r"," ","d","i","r","e","c","t","o","r","y">>)
             ELSE IF ~IsFile(node)
             THEN Ret([sh EXCEPT !.path = resolvePath(sh, args[1])], <<"c","a","t",":"," ">> \o args[1] \o <<":"," ","I","s"," ","a"," ","d","i","r","e","c","t","o","r","y">>)
             ELSE Ret(sh, node.c)

cmd_cat(sh, args) ==
    IF NoArg0(args) THEN Ret(sh, <<"c","a","t",":"," ","m","i","s","s","i","n","g"," ","f","i","l","e"," ","o","p","e","r","a","n","d">>)
    ELSE LET node == getNode(sh, args[1])
         IN  IF node.k = "null"
             THEN Ret(sh, <<"c","a","t",":"," ">> \o args[1] \o <<":"," ","N","o"," ","s","u","c","h"," ","f","i","l","e"," ","o","r"," ","d","i","r","e","c","t","o","r","y">>)
             ELSE IF ~IsFile(node)
             THEN Ret(sh, <<"c","a","t",":"," ">> \o args[1] \o <<":"," ","I","s"," ","a"," ","d","i","r","e","c","t","o","r","y">>)
             ELSE Ret(sh, node.c)

cmd_echo(sh, args) == Ret(sh, StripQuotes(Join(args, <<SP>>)))

cmd_clear(sh, args) == Ret(sh, <<"_","_","C","L","E","A","R","_","_">>)

cmd_whoami(sh, args) == Ret(sh, sh.env.USER)

cmd_uname(sh, args) ==
    IF \E i \in 1..Len(args) : args[i] = <<"-","a">>
    THEN Ret(sh, <<"U","n","i","x","S","h","e","l","l"," ","1",".","0",".","0"," ","U","n","i","x","S","h","e","l","l"," ","T","e","r","m","i","n","a","l"," ","x","8","6","_","6","4"," ","G","N","U","/","J","a","v","a","S","c","r","i","p","t">>)
    ELSE Ret(sh, <<"U","n","i","x","S","h","e","l","l">>)

cmd_mkdir(sh, args) ==
    IF NoArg0(args) THEN Ret(sh, <<"m","k","d","i","r",":"," ","m","i","s","s","i","n","g"," ","o","p","e","r","a","n","d">>)
    ELSE LET path == resolvePath(sh, args[1])
             parts == PathParts(path)
             dirName == PopName(parts)
             parentPath == ParentPath(path)
             parent == getNode(sh, parentPath)
             msg(reason) == <<"m","k","d","i","r",":"," ","c","a","n","n","o","t"," ","c","r","e","a","t","e"," ","d","i","r","e","c","t","o","r","y"," ","'">> \o args[1] \o <<"'",":"," ">> \o reason
         IN  IF ~canWrite(sh, path) THEN Ret(sh, msg(<<"P","e","r","m","i","s","s","i","o","n"," ","d","e","n","i","e","d">>))
             ELSE IF ~Truthy(parent) THEN Ret(sh, msg(<<"N","o"," ","s","u","c","h"," ","f","i","l","e"," ","o","r"," ","d","i","r","e","c","t","o","r","y">>))
             ELSE IF ~IsDir(parent) THEN Ret(sh, msg(<<"N","o","t"," ","a"," ","d","i","r","e","c","t","o","r","y">>))
             ELSE IF HasKey(parent, dirName) THEN Ret(sh, msg(<<"F","i","l","e"," ","e","x","i","s","t","s">>))
             ELSE Ret([sh EXCEPT !.fs = Update(sh.fs, PathParts(resolvePath(sh, parentPath)),
                                               "set", dirName, Dir(<<>>))], <<>>)

cmd_touch(sh, args) ==
    IF NoArg0(args) THEN Ret(sh, <<"t","o","u","c","h",":"," ","m","i","s","s","i","n","g"," ","f","i","l","e"," ","o","p","e","r","a","n","d">>)
    ELSE LET path == resolvePath(sh, args[1])
             parts == PathParts(path)
             fileName == PopName(parts)
             parentPath == ParentPath(path)
             parent == getNode(sh, parentPath)
             msg(reason) == <<"t","o","u","c","h",":"," ","c","a","n","n","o","t"," ","t","o","u","c","h"," ","'">> \o args[1] \o <<"'",":"," ">> \o reason
         IN  IF ~canWrite(sh, path) THEN Ret(sh, msg(<<"P","e","r","m","i","s","s","i","o","n"," ","d","e","n","i","e","d">>))
             ELSE IF ~Truthy(parent) THEN Ret(sh, msg(<<"N","o"," ","s","u","c","h"," ","f","i","l","e"," ","o","r"," ","d","i","r","e","c","t","o","r","y">>))
             ELSE IF ~IsDir(parent) THEN Ret(sh, msg(<<"N","o","t"," ","a"," ","d","i","r","e","c","t","o","r","y">>))
             ELSE IF HasKey(parent, fileName) THEN Ret(sh, <<>>)
             ELSE Ret([sh EXCEPT !.fs = Update(sh.fs, PathParts(resolvePath(sh, parentPath)),
                                               "set", fileName, File(<<>>))], <<>>)

\* String(n) for a natural number
RECURSIVE NatStr(_)
NatStr(n) ==
    LET digit(d) == <<"0","1","2","3","4","5","6","7","8","9">>[d + 1]
    IN  IF n < 10 THEN <<digit(n)>> ELSE NatStr(n \div 10) \o <<digit(n % 10)>>

\* String.prototype.padStart / padEnd with spaces
RECURSIVE PadStart(_, _)
PadStart(s, n) == IF Len(s) >= n THEN s ELSE PadStart(<<SP>> \o s, n)
RECURSIVE PadEnd(_, _)
PadEnd(s, n) == IF Len(s) >= n THEN s ELSE PadEnd(s \o <<SP>>, n)

\* the flag tests of cmd_rm and cmd_ls: arg.startsWith('-')
IsFlag(arg) == StartsWith(arg, <<"-">>)
RECURSIVE Targets(_)
Targets(args) ==
    IF args = <<>> THEN <<>>
    ELSE IF IsFlag(Head(args)) THEN Targets(Tail(args))
    ELSE <<Head(args)>> \o Targets(Tail(args))
AnyFlagHas(args, c) == \E i \in 1..Len(args) : IsFlag(args[i]) /\ HasChar(args[i], c)

\* the per-target loop of cmd_rm; acc = [sh, errors, removed]
RECURSIVE RmLoop(_, _, _, _, _)
RmLoop(acc, targets, recursive, force, verbose) ==
    IF targets = <<>> THEN acc
    ELSE
      LET sh == acc.sh
          target == Head(targets)
          path == resolvePath(sh, target)
          parts == PathParts(path)
          fileName == PopName(parts)
          parentPath == ParentPath(path)
          parent == getNode(sh, parentPath)
          err(reason) == <<"r","m",":"," ","c","a","n","n","o","t"," ","r","e","m","o","v","e"," ","'">> \o target \o <<"'",":"," ">> \o reason
          next ==
            IF ~canWrite(sh, parentPath)
            THEN [acc EXCEPT !.errors = Append(@, err(<<"P","e","r","m","i","s","s","i","o","n"," ","d","e","n","i","e","d">>))]
            ELSE IF ~Truthy(parent) \/ ~IsDir(parent) \/ ~HasKey(parent, fileName)
            THEN IF ~force
                 THEN [acc EXCEPT !.errors = Append(@, err(<<"N","o"," ","s","u","c","h"," ","f","i","l","e"," ","o","r"," ","d","i","r","e","c","t","o","r","y">>))]
                 ELSE acc
            ELSE IF IsDir(Child(parent, fileName)) /\ ~recursive
            THEN IF ~force
                 THEN [acc EXCEPT !.errors = Append(@, err(<<"I","s"," ","a"," ","d","i","r","e","c","t","o","r","y">>))]
                 ELSE acc
            ELSE [acc EXCEPT
                    !.sh.fs = Update(sh.fs, PathParts(resolvePath(sh, parentPath)),
                                     "delete", fileName, Null),
                    !.removed = IF verbose THEN Append(@, <<"r","e","m","o","v","e","d"," ","'">> \o target \o <<"'">>) ELSE @]
      IN  RmLoop(next, Tail(targets), recursive, force, verbose)

cmd_rm(sh, args) ==
    IF NoArg0(args) THEN Ret(sh, <<"r","m",":"," ","m","i","s","s","i","n","g"," ","o","p","e","r","a","n","d">>)
    ELSE
      LET recursive == AnyFlagHas(args, "r") \/ AnyFlagHas(args, "R")
          force == AnyFlagHas(args, "f")
          verbose == AnyFlagHas(args, "v")
          targets == Targets(args)
      IN  IF targets = <<>> THEN Ret(sh, <<"r","m",":"," ","m","i","s","s","i","n","g"," ","o","p","e","r","a","n","d">>)
          ELSE
            LET done == RmLoop([sh |-> sh, errors |-> <<>>, removed |-> <<>>],
                               targets, recursive, force, verbose)
                out1 == IF verbose /\ done.removed # <<>> THEN Join(done.removed, <<NL>>) ELSE <<>>
                out2 == IF done.errors # <<>>
                        THEN (IF out1 # <<>> THEN out1 \o <<NL>> ELSE out1) \o Join(done.errors, <<NL>>)
                        ELSE out1
            IN  Ret(done.sh, out2)

UserHome(user) == IF user = sRoot THEN sSlashRoot ELSE sHomeSlash \o user

cmd_su(sh, args) ==
    LET targetUser == IF NoArg0(args) THEN sRoot ELSE args[1]
    IN  Ret([sh EXCEPT
               !.stack = Append(@, [user |-> sh.user, home |-> sh.env.HOME, path |-> sh.path]),
               !.user = targetUser,
               !.env.USER = targetUser,
               !.env.HOME = UserHome(targetUser),
               !.env.PWD = sh.path],
            <<"_","_","U","S","E","R","_","S","W","I","T","C","H","E","D","_","_",":">> \o targetUser)

cmd_exitKeepPath(sh, args) ==
    IF sh.stack = <<>> THEN Ret(sh, <<"e","x","i","t",":"," ","n","o"," ","o","t","h","e","r"," ","u","s","e","r"," ","s","e","s","s","i","o","n"," ","t","o"," ","r","e","t","u","r","n"," ","t","o">>)
    ELSE LET previousUser == Last(sh.stack)
         IN  Ret([sh EXCEPT
                    !.stack = Front(@),
                    !.user = previousUser.user,
                    !.env.USER = previousUser.user,
                    !.env.HOME = previousUser.home],
                 <<"_","_","U","S","E","R","_","S","W","I","T","C","H","E","D","_","_",":">> \o previousUser.user)

cmd_exitUnguarded(sh, args) ==
    IF sh.stack = <<>> THEN Raise(sh, <<"C","a","n","n","o","t"," ","r","e","a","d"," ","p","r","o","p","e","r","t","i","e","s"," ","o","f"," ","u","n","d","e","f","i","n","e","d"," ","(","r","e","a","d","i","n","g"," ","'","u","s","e","r","'",")">>)
    ELSE LET previousUser == Last(sh.stack)
         IN  Ret([sh EXCEPT
                    !.stack = Front(@),
                    !.user = previousUser.user,
                    !.env.USER = previousUser.user,
                    !.env.HOME = previousUser.home,
                    !.path = previousUser.path,
                    !.env.PWD = previousUser.path],
                 <<"_","_","U","S","E","R","_","S","W","I","T","C","H","E","D","_","_",":">> \o previousUser.user)

cmd_exit(sh, args) ==
    IF sh.stack = <<>> THEN Ret(sh, <<"e","x","i","t",":"," ","n","o"," ","o","t","h","e","r"," ","u","s","e","r"," ","s","e","s","s","i","o","n"," ","t","o"," ","r","e","t","u","r","n"," ","t","o">>)
    ELSE LET previousUser == Last(sh.stack)
         IN  Ret([sh EXCEPT
                    !.stack = Front(@),
                    !.user = previousUser.user,
                    !.env.USER = previousUser.user,
                    !.env.HOME = previousUser.home,
                    !.path = previousUser.path,
                    !.env.PWD = previousUser.path],
                 <<"_","_","U","S","E","R","_","S","W","I","T","C","H","E","D","_","_",":">> \o previousUser.user)

----------------------------------------------------------------------------
(* cmd_ls                                                                  *)

UpperChars == <<"A","B","C","D","E","F","G","H","I","J","K","L","M","N","O","P","Q","R","S","T","U","V","W","X","Y","Z">>
LowerChars == <<"a","b","c","d","e","f","g","h","i","j","k","l","m","n","o","p","q","r","s","t","u","v","w","x","y","z">>

\* String.prototype.toLowerCase, one character
LowerChar(c) ==
    IF \E i \in 1..Len(UpperChars) : UpperChars[i] = c
    THEN LowerChars[CHOOSE i \in 1..Len(UpperChars) : UpperChars[i] = c]
    ELSE c
ToLowerCase(s) == [i \in 1..Len(s) |-> LowerChar(s[i])]

\* the order of the characters under localeCompare (punctuation, digits, letters)
Collation == <<" ","_","-",",",";",":","!","?",".","'","\"","(",")","[","]","{","}","@","*","/","\\","&","#","%","^","+","<","=",">","|","~","$","0","1","2","3","4","5","6","7","8","9","a","b","c","d","e","f","g","h","i","j","k","l","m","n","o","p","q","r","s","t","u","v","w","x","y","z">>
CollRank(c) ==
    IF \E i \in 1..Len(Collation) : Collation[i] = LowerChar(c)
    THEN CHOOSE i \in 1..Len(Collation) : Collation[i] = LowerChar(c)
    ELSE 0

\* a.localeCompare(b) < 0 : by letter first, lower case before upper case on a tie
RECURSIVE PrimaryCmp(_, _)
PrimaryCmp(a, b) ==
    IF a = <<>> /\ b = <<>> THEN 0
    ELSE IF a = <<>> THEN -1
    ELSE IF b = <<>> THEN 1
    ELSE IF CollRank(Head(a)) < CollRank(Head(b)) THEN -1
    ELSE IF CollRank(Head(a)) > CollRank(Head(b)) THEN 1
    ELSE PrimaryCmp(Tail(a), Tail(b))
RECURSIVE CaseCmp(_, _)
CaseCmp(a, b) ==
    IF a = <<>> \/ b = <<>> THEN 0
    ELSE IF Head(a) = Head(b) THEN CaseCmp(Tail(a), Tail(b))
    ELSE IF Head(a) = LowerChar(Head(a)) THEN -1 ELSE 1
LocaleCompare(a, b) == IF PrimaryCmp(a, b) # 0 THEN PrimaryCmp(a, b) ELSE CaseCmp(a, b)

\* the comparator of entries.sort in cmd_ls: directories first, then by name
LsCompare(node, a, b) ==
    LET aIsDir == IsDir(Child(node, a))
        bIsDir == IsDir(Child(node, b))
    IN  IF aIsDir /\ ~bIsDir THEN -1
        ELSE IF ~aIsDir /\ bIsDir THEN 1
        ELSE LocaleCompare(a, b)

\* Array.prototype.sort (stable) by insertion
RECURSIVE LsInsert(_, _, _)
LsInsert(node, sorted, x) ==
    IF sorted = <<>> THEN <<x>>
    ELSE IF LsCompare(node, x, Head(sorted)) < 0 THEN <<x>> \o sorted
    ELSE <<Head(sorted)>> \o LsInsert(node, Tail(sorted), x)
RECURSIVE LsSort(_, _, _)
LsSort(node, names, sorted) ==
    IF names = <<>> THEN sorted
    ELSE LsSort(node, Tail(names), LsInsert(node, sorted, Head(names)))

RECURSIVE NotHidden(_)
NotHidden(names) ==
    IF names = <<>> THEN <<>>
    ELSE IF StartsWith(Head(names), <<".">>) THEN NotHidden(Tail(names))
    ELSE <<Head(names)>> \o NotHidden(Tail(names))

\* the size column of the long format
LsSize(node, humanReadable) ==
    IF IsDir(node) THEN <<"4","0","9","6">>
    ELSE LET bytes == Len(node.c)
         IN  IF ~humanReadable THEN NatStr(bytes)
             ELSE IF bytes < 1024 THEN NatStr(bytes) \o <<"B">>
             ELSE IF bytes < 1024 * 1024 THEN NatStr((2 * bytes + 1024) \div 2048) \o <<"K">>
             ELSE NatStr((2 * bytes + 1024 * 1024) \div (2 * 1024 * 1024)) \o <<"M">>

LsLongLine(sh, path, node, name, humanReadable) ==
    LET isDir == IsDir(Child(node, name))
        filePath == IF path = <<SLASH>> THEN <<SLASH>> \o name ELSE path \o <<SLASH>> \o name
        owner == getOwner(sh, filePath)
    IN  (IF isDir THEN <<"d","r","w","x","r","-","x","r","-","x">> ELSE <<"-","r","w","-","r","-","-","r","-","-">>) \o <<SP>>
        \o (IF isDir THEN <<"2">> ELSE <<"1">>) \o <<SP>>
        \o PadEnd(owner.user, 8) \o <<SP>> \o PadEnd(owner.group, 8) \o <<SP>>
        \o PadStart(LsSize(Child(node, name), humanReadable), IF humanReadable THEN 5 ELSE 8)
        \o <<SP>> \o sh.now.short \o <<SP>> \o name

\* one iteration of the loop over targetPaths: the result pushed, if any
LsOne(sh, targetPath, showHidden, longFormat, humanReadable) ==
    LET path == IF targetPath = <<".">> THEN sh.path ELSE resolvePath(sh, targetPath)
        node == getNode(sh, path)
        entries == LsSort(node, IF showHidden THEN Keys(node) ELSE NotHidden(Keys(node)), <<>>)
    IN  IF node.k = "null"
        THEN <<<<"l","s",":"," ","c","a","n","n","o","t"," ","a","c","c","e","s","s"," ","'">> \o targetPath \o <<"'",":"," ","N","o"," ","s","u","c","h"," ","f","i","l","e"," ","o","r"," ","d","i","r","e","c","t","o","r","y">>>>
        ELSE IF IsFile(node) THEN <<targetPath>>
        ELSE IF entries = <<>> THEN <<>>
        ELSE IF longFormat
        THEN <<Join([i \in 1..Len(entries) |->
                       LsLongLine(sh, path, node, entries[i], humanReadable)], <<NL>>)>>
        ELSE LET formatted == [i \in 1..Len(entries) |->
                                 IF IsDir(Child(node, entries[i]))
                                 THEN entries[i] \o <<SLASH>> ELSE entries[i]]
             IN  <<Join(formatted, IF sh.piped THEN <<NL>> ELSE <<" "," "," "," ">>)>>

RECURSIVE LsLoop(_, _, _, _, _)
LsLoop(sh, targetPaths, showHidden, longFormat, humanReadable) ==
    IF targetPaths = <<>> THEN <<>>
    ELSE LsOne(sh, Head(targetPaths), showHidden, longFormat, humanReadable)
         \o LsLoop(sh, Tail(targetPaths), showHidden, longFormat, humanReadable)

cmd_ls(sh, args) ==
    LET targetPaths == IF Targets(args) = <<>> THEN <<sh.path>> ELSE Targets(args)
    IN  Ret(sh, Join(LsLoop(sh, targetPaths, AnyFlagHas(args, "a"), AnyFlagHas(args, "l"),
                            AnyFlagHas(args, "h")), <<NL>>))

----------------------------------------------------------------------------
(* cmd_tree and the remaining handlers                                     *)

\* the box-drawing characters of cmd_tree, each one character of the output
BoxUpRight == "U+2514"
BoxVertRight == "U+251C"
BoxHoriz == "U+2500"
BoxVert == "U+2502"

\* Object.entries(node): the entries of a directory; of a string, its
\* characters under their indices
EntriesOf(node) ==
    IF IsDir(node) THEN node.e
    ELSE IF ~IsFile(node) THEN <<>>
    ELSE [i \in 1..Len(node.c) |-> Entry(NatStr(i - 1), File(<<node.c[i]>>))]

RECURSIVE buildTree(_, _)
RECURSIVE BuildTreeFrom(_, _, _)
BuildTreeFrom(entries, prefix, index) ==
    IF index > Len(entries) THEN <<>>
    ELSE LET isLastEntry == index = Len(entries)
             connector == IF isLastEntry THEN <<BoxUpRight, BoxHoriz, BoxHoriz, SP>>
                          ELSE <<BoxVertRight, BoxHoriz, BoxHoriz, SP>>
             isDir == IsDir(entries[index].v)
             line == prefix \o connector \o entries[index].n
                     \o (IF isDir THEN <<SLASH, NL>> ELSE <<NL>>)
             newPrefix == prefix \o (IF isLastEntry THEN <<" "," "," "," ">> ELSE <<BoxVert, SP, SP, SP>>)
         IN  line \o (IF isDir THEN buildTree(entries[index].v, newPrefix) ELSE <<>>)
             \o BuildTreeFrom(entries, prefix, index + 1)
buildTree(node, prefix) == BuildTreeFrom(EntriesOf(node), prefix, 1)

\* Object.entries(null) raises a TypeError
cmd_tree(sh, args) ==
    LET node == getNode(sh, sh.path)
    IN  IF node.k = "null" THEN Raise(sh, <<"C","a","n","n","o","t"," ","c","o","n","v","e","r","t"," ","u","n","d","e","f","i","n","e","d"," ","o","r"," ","n","u","l","l"," ","t","o"," ","o","b","j","e","c","t">>)
        ELSE Ret(sh, sh.path \o <<SLASH, NL>> \o buildTree(node, <<>>))

cmd_env(sh, args) ==
    Ret(sh, <<"U","S","E","R","=">> \o sh.env.USER \o <<NL>> \o <<"H","O","M","E","=">> \o sh.env.HOME \o <<NL>>
            \o <<"P","W","D","=">> \o sh.env.PWD \o <<NL>> \o <<"P","A","T","H","=","/","u","s","r","/","l","o","c","a","l","/","b","i","n",":","/","u","s","r","/","b","i","n",":","/","b","i","n">> \o <<NL>>
            \o <<"S","H","E","L","L","=","/","b","i","n","/","b","a","s","h">>)

cmd_history(sh, args) ==
    Ret(sh, Join([i \in 1..Len(sh.hist) |-> NatStr(i) \o <<" "," ">> \o sh.hist[i]], <<NL>>))

\* the keys of this.commands, in the order initializeCommands sets them
CommandNames ==
    << <<"h","e","l","p">>, <<"l","s">>, <<"c","d">>, <<"p","w","d">>, <<"c","a","t">>, <<"e","c","h","o">>, <<"c","l","e","a","r">>, <<"w","h","o","a","m","i">>, <<"d","a","t","e">>, <<"u","n","a","m","e">>, <<"e","n","v">>,
       <<"h","i","s","t","o","r","y">>, <<"m","k","d","i","r">>, <<"t","o","u","c","h">>, <<"r","m">>, <<"t","r","e","e">>, <<"p","s">>, <<"v","i">>, <<"v","i","m">>, <<"s","u">>, <<"s","u","d","o">>, <<"e","x","i","t">> >>

\* Object.keys(this.commands).includes(name): a registered command
IsRegistered(name) == \E i \in 1..Len(CommandNames) : CommandNames[i] = name

\* name in this.commands: the registered commands and what the table
\* inherits from Object.prototype
IsCommand(name) == IsRegistered(name) \/ name \in ProtoNames \/ name = <<"_","_","p","r","o","t","o","_","_">>

\* Values a call can return that are not strings, each written as a
\* one-element sequence whose element is no character.
JsArray == <<"[array]">>
JsObject == <<"[object]">>
JsTrue == <<"[true]">>
JsFalse == <<"[false]">>
JsUndefined == <<"[undefined]">>
IsString(v) == v \notin {JsArray, JsObject, JsTrue, JsFalse, JsUndefined}

\* JavaScript truthiness of a returned value
JsTruthy(v) == v \notin {<<>>, JsFalse, JsUndefined}

\* this.commands[name](args) for a name the table inherits
cmd_inherited(sh, name, args) ==
    CASE name = <<"c","o","n","s","t","r","u","c","t","o","r">> -> Ret(sh, JsArray)
      [] name \in {<<"t","o","S","t","r","i","n","g">>, <<"t","o","L","o","c","a","l","e","S","t","r","i","n","g">>} -> Ret(sh, <<"[","o","b","j","e","c","t"," ","O","b","j","e","c","t","]">>)
      [] name = <<"v","a","l","u","e","O","f">> -> Ret(sh, JsObject)
      [] name \in {<<"h","a","s","O","w","n","P","r","o","p","e","r","t","y">>, <<"p","r","o","p","e","r","t","y","I","s","E","n","u","m","e","r","a","b","l","e">>} ->
           Ret(sh, IF IsRegistered(Join(args, <<",">>)) THEN JsTrue ELSE JsFalse)
      [] name = <<"i","s","P","r","o","t","o","t","y","p","e","O","f">> -> Ret(sh, JsFalse)
      [] name \in {<<"_","_","l","o","o","k","u","p","G","e","t","t","e","r","_","_">>, <<"_","_","l","o","o","k","u","p","S","e","t","t","e","r","_","_">>} -> Ret(sh, JsUndefined)
      [] name = <<"_","_","d","e","f","i","n","e","G","e","t","t","e","r","_","_">> ->
           Raise(sh, <<"O","b","j","e","c","t",".","p","r","o","t","o","t","y","p","e",".","_","_","d","e","f","i","n","e","G","e","t","t","e","r","_","_",":"," ","E","x","p","e","c","t","i","n","g"," ","f","u","n","c","t","i","o","n">>)
      [] name = <<"_","_","d","e","f","i","n","e","S","e","t","t","e","r","_","_">> ->
           Raise(sh, <<"O","b","j","e","c","t",".","p","r","o","t","o","t","y","p","e",".","_","_","d","e","f","i","n","e","S","e","t","t","e","r","_","_",":"," ","E","x","p","e","c","t","i","n","g"," ","f","u","n","c","t","i","o","n">>)
      [] name = <<"_","_","p","r","o","t","o","_","_">> -> Raise(sh, <<"t","h","i","s",".","c","o","m","m","a","n","d","s","[","c","o","m","m","a","n","d","]"," ","i","s"," ","n","o","t"," ","a"," ","f","u","n","c","t","i","o","n">>)

\* Object.keys(this.commands).sort()
SortedCommandNames ==
    << <<"c","a","t">>, <<"c","d">>, <<"c","l","e","a","r">>, <<"d","a","t","e">>, <<"e","c","h","o">>, <<"e","n","v">>, <<"e","x","i","t">>, <<"h","e","l","p">>, <<"h","i","s","t","o","r","y">>, <<"l","s">>, <<"m","k","d","i","r">>,
       <<"p","s">>, <<"p","w","d">>, <<"r","m">>, <<"s","u">>, <<"s","u","d","o">>, <<"t","o","u","c","h">>, <<"t","r","e","e">>, <<"u","n","a","m","e">>, <<"v","i">>, <<"v","i","m">>, <<"w","h","o","a","m","i">> >>

cmd_help(sh, args) ==
    Ret(sh, <<"A","v","a","i","l","a","b","l","e"," ","c","o","m","m","a","n","d","s",":","\n">>
            \o Join([i \in 1..Len(SortedCommandNames) |-> <<" "," ">> \o SortedCommandNames[i]], <<NL>>)
            \o <<"\n","\n","T","y","p","e"," ","a","n","y"," ","c","o","m","m","a","n","d"," ","t","o"," ","t","r","y"," ","i","t"," ","o","u","t","!">>)

PsLine(pid, tty, time, cmd) ==
    PadStart(NatStr(pid), 5) \o <<SP>> \o PadEnd(tty, 12) \o <<SP>> \o PadStart(time, 8)
    \o <<SP>> \o cmd \o <<NL>>

cmd_ps(sh, args) ==
    Ret(sh, <<" "," ","P","I","D"," ","T","T","Y"," "," "," "," "," "," "," "," "," "," ","T","I","M","E"," ","C","M","D","\n">> \o PsLine(1, <<"?">>, <<"0",":","0","1">>, <<"i","n","i","t">>)
            \o PsLine(100, <<"p","t","s","/","0">>, <<"0",":","0","0">>, <<"b","a","s","h">>) \o PsLine(101, <<"p","t","s","/","0">>, <<"0",":","0","0">>, <<"p","s">>))

\* new Date().toString(): the host clock at the call
cmd_date(sh, args) == Ret(sh, sh.now.full)

----------------------------------------------------------------------------
(* The editor (src/docs/vi-editor.js, class ViEditor).  An editor is a     *)
(* record of the object's fields; open tells whether its keydown listener  *)
(* is attached, calls lists the callbacks the last key event invoked and   *)
(* keys counts the key events it has handled.  A key event e is            *)
(* [key, shiftKey, ctrlKey, metaKey].  Rows and columns count from 0 as in *)
(* the code.                                                               *)

\* s.slice(a, b) and s.slice(a) for a, b >= 0
Slice(s, a, b) == IF a >= Len(s) \/ a >= b THEN <<>> ELSE SubSeq(s, a + 1, IF b < Len(s) THEN b ELSE Len(s))
SliceFrom(s, a) == IF a >= Len(s) THEN <<>> ELSE SubSeq(s, a + 1, Len(s))

\* s[i] as a string; undefined, which is falsy, is written as ''
CharAt(s, i) == IF i < Len(s) THEN <<s[i + 1]>> ELSE <<>>

\* lines after lines.splice(at, count, ...items)
Splice(lines, at, count, items) ==
    SubSeq(lines, 1, at) \o items \o SliceFrom(lines, at + count)

\* new ViEditor(filename, content, saveCallback, exitCallback)
ViEditor(filename, content) ==
    [open |-> TRUE, filename |-> filename,
     lines |-> IF content # <<>> THEN Split(content, NL) ELSE << <<>> >>,
     cursorRow |-> 0, cursorCol |-> 0, mode |-> "normal", commandBuffer |-> <<>>,
     normalModeBuffer |-> <<>>, yankBuffer |-> <<>>, message |-> <<>>, modified |-> FALSE,
     calls |-> <<>>, keys |-> 0]

\* no editor has been opened
NoEditor == [ViEditor(<<>>, <<>>) EXCEPT !.open = FALSE]

\* this.lines[this.cursorRow]
CurLine(ed) == ed.lines[ed.cursorRow + 1]

\* this.lines[this.cursorRow] = text
SetLine(ed, text) == [ed EXCEPT !.lines[ed.cursorRow + 1] = text]

\* the match of /^\S+\s*/ in s, '' when there is none
RECURSIVE RunLength(_, _)
RunLength(s, spaces) ==
    IF s # <<>> /\ (IsSpace(Head(s)) <=> spaces) THEN 1 + RunLength(Tail(s), spaces) ELSE 0
WordMatch(s) ==
    IF RunLength(s, FALSE) = 0 THEN <<>>
    ELSE TakeFirst(s, RunLength(s, FALSE) + RunLength(DropFirst(s, RunLength(s, FALSE)), TRUE))

\* the end of handleDeleteMotion: the yank buffer, modified and the message
Deleted(ed, deletedContent, numLinesDeleted) ==
    IF deletedContent # <<>>
    THEN [ed EXCEPT !.yankBuffer = deletedContent, !.modified = TRUE, !.normalModeBuffer = <<>>,
                    !.message = IF numLinesDeleted > 0
                                THEN NatStr(numLinesDeleted) \o <<" ","l","i","n","e">>
                                     \o (IF numLinesDeleted > 1 THEN <<"s">> ELSE <<>>) \o <<" ","d","e","l","e","t","e","d">>
                                ELSE <<"d","e","l","e","t","e","d">>]
    ELSE [ed EXCEPT !.normalModeBuffer = <<>>]

\* the buffer after whole lines were spliced out, left empty when no line
\* remains
CollapseToNothing(ed, lines) ==
    [ed EXCEPT !.lines = lines,
               !.cursorRow = IF @ >= Len(lines) THEN Len(lines) - 1 ELSE @,
               !.cursorCol = 0]

\* if (this.lines.length === 0) this.lines = ['']
Refill(lines) == IF lines = <<>> THEN << <<>> >> ELSE lines

\* after whole lines were spliced out: at least one line, the row inside
\* the buffer, the column 0
Collapse(ed, lines) ==
    [ed EXCEPT !.lines = Refill(lines),
               !.cursorRow = IF @ >= Len(Refill(lines)) THEN Len(Refill(lines)) - 1 ELSE @,
               !.cursorCol = 0]

\* dd, dj, dk: count lines from row first go, the cursor goes to row
DeleteLines(ed, first, count, row, deletedContent) ==
    Deleted(Collapse([ed EXCEPT !.cursorRow = row], Splice(ed.lines, first, count, <<>>)),
            deletedContent, count)

\* handleDeleteMotion(key)
handleDeleteMotion(ed, key) ==
    CASE key = <<"d">> -> DeleteLines(ed, ed.cursorRow, 1, ed.cursorRow, CurLine(ed))
      [] key \in {<<"j">>, <<"A","r","r","o","w","D","o","w","n">>} ->
            IF ed.cursorRow < Len(ed.lines) - 1
            THEN DeleteLines(ed, ed.cursorRow, 2, ed.cursorRow,
                             CurLine(ed) \o <<NL>> \o ed.lines[ed.cursorRow + 2])
            ELSE DeleteLines(ed, ed.cursorRow, 1, ed.cursorRow, CurLine(ed))
      [] key \in {<<"k">>, <<"A","r","r","o","w","U","p">>} ->
            IF ed.cursorRow > 0
            THEN DeleteLines(ed, ed.cursorRow - 1, 2, ed.cursorRow - 1,
                             ed.lines[ed.cursorRow] \o <<NL>> \o CurLine(ed))
            ELSE DeleteLines(ed, ed.cursorRow, 1, ed.cursorRow, CurLine(ed))
      [] key = <<"$">> ->
            Deleted(SetLine(ed, Slice(CurLine(ed), 0, ed.cursorCol)),
                    SliceFrom(CurLine(ed), ed.cursorCol), 0)
      [] key = <<"0">> ->
            Deleted([SetLine(ed, SliceFrom(CurLine(ed), ed.cursorCol)) EXCEPT !.cursorCol = 0],
                    Slice(CurLine(ed), 0, ed.cursorCol), 0)
      [] key = <<"w">> ->
            IF WordMatch(SliceFrom(CurLine(ed), ed.cursorCol)) # <<>>
            THEN Deleted(SetLine(ed, Slice(CurLine(ed), 0, ed.cursorCol)
                                     \o SliceFrom(CurLine(ed), ed.cursorCol
                                                  + Len(WordMatch(SliceFrom(CurLine(ed), ed.cursorCol))))),
                         WordMatch(SliceFrom(CurLine(ed), ed.cursorCol)), 0)
            ELSE Deleted(ed, <<>>, 0)
      [] key \in {<<"l">>, <<"A","r","r","o","w","R","i","g","h","t">>} ->
            IF ed.cursorCol < Len(CurLine(ed))
            THEN Deleted(SetLine(ed, Slice(CurLine(ed), 0, ed.cursorCol)
                                     \o SliceFrom(CurLine(ed), ed.cursorCol + 1)),
                         CharAt(CurLine(ed), ed.cursorCol), 0)
            ELSE Deleted(ed, <<>>, 0)
      [] key \in {<<"h">>, <<"A","r","r","o","w","L","e","f","t">>} ->
            IF ed.cursorCol > 0
            THEN Deleted([SetLine(ed, Slice(CurLine(ed), 0, ed.cursorCol - 1)
                                      \o SliceFrom(CurLine(ed), ed.cursorCol))
                            EXCEPT !.cursorCol = @ - 1],
                         CharAt(CurLine(ed), ed.cursorCol - 1), 0)
            ELSE Deleted(ed, <<>>, 0)
      [] OTHER -> [ed EXCEPT !.normalModeBuffer = <<>>]

\* Math.min(this.cursorCol, this.lines[row].length) after a vertical move
MoveToRow(ed, row) ==
    [ed EXCEPT !.cursorRow = row,
               !.cursorCol = IF @ < Len(ed.lines[row + 1]) THEN @ ELSE Len(ed.lines[row + 1])]

\* Math.min(this.lines[this.cursorRow].length, this.cursorCol + 1)
ColRight(ed) == IF ed.cursorCol + 1 < Len(CurLine(ed)) THEN ed.cursorCol + 1 ELSE Len(CurLine(ed))

\* Math.max(0, this.cursorCol - 1)
ColLeft(ed) == IF ed.cursorCol > 0 THEN ed.cursorCol - 1 ELSE 0

\* handleNormalMode(e) with no delete pending; the buffer has been cleared
NormalKey(ed, e) ==
    CASE e.key \in {<<"h">>, <<"A","r","r","o","w","L","e","f","t">>} -> [ed EXCEPT !.cursorCol = ColLeft(ed)]
      [] e.key \in {<<"j">>, <<"A","r","r","o","w","D","o","w","n">>} ->
            MoveToRow(ed, IF ed.cursorRow + 1 < Len(ed.lines) THEN ed.cursorRow + 1
                          ELSE Len(ed.lines) - 1)
      [] e.key \in {<<"k">>, <<"A","r","r","o","w","U","p">>} -> MoveToRow(ed, IF ed.cursorRow > 0 THEN ed.cursorRow - 1 ELSE 0)
      [] e.key \in {<<"l">>, <<"A","r","r","o","w","R","i","g","h","t">>} -> [ed EXCEPT !.cursorCol = ColRight(ed)]
      [] e.key = <<"0">> -> [ed EXCEPT !.cursorCol = 0]
      [] e.key = <<"$">> -> [ed EXCEPT !.cursorCol = Len(CurLine(ed))]
      [] e.key = <<"g">> /\ e.shiftKey -> [ed EXCEPT !.cursorRow = Len(ed.lines) - 1]
      [] e.key = <<"i">> -> [ed EXCEPT !.mode = "insert"]
      [] e.key = <<"a">> -> [ed EXCEPT !.cursorCol = ColRight(ed), !.mode = "insert"]
      [] e.key = <<"o">> ->
            [ed EXCEPT !.lines = Splice(@, ed.cursorRow + 1, 0, << <<>> >>),
                       !.cursorRow = @ + 1, !.cursorCol = 0, !.mode = "insert", !.modified = TRUE]
      [] e.key = <<"O">> /\ e.shiftKey ->
            [ed EXCEPT !.lines = Splice(@, ed.cursorRow, 0, << <<>> >>),
                       !.cursorCol = 0, !.mode = "insert", !.modified = TRUE]
      [] e.key = <<"x">> ->
            IF ed.cursorCol < Len(CurLine(ed))
            THEN [SetLine(ed, Slice(CurLine(ed), 0, ed.cursorCol)
                              \o SliceFrom(CurLine(ed), ed.cursorCol + 1))
                    EXCEPT !.modified = TRUE]
            ELSE ed
      [] e.key = <<"d">> /\ e.shiftKey ->
            [SetLine(ed, Slice(CurLine(ed), 0, ed.cursorCol)) EXCEPT !.modified = TRUE]
      [] e.key = <<"d">> /\ ~e.shiftKey -> [ed EXCEPT !.normalModeBuffer = <<"d">>]
      [] e.key = <<"y">> /\ e.shiftKey ->
            [ed EXCEPT !.yankBuffer = CurLine(ed), !.message = <<"y","a","n","k","e","d"," ","l","i","n","e">>]
      [] e.key = <<"p">> ->
            IF ed.yankBuffer # <<>>
            THEN [ed EXCEPT !.lines = Splice(@, ed.cursorRow + 1, 0, <<ed.yankBuffer>>),
                            !.cursorRow = @ + 1, !.modified = TRUE]
            ELSE ed
      [] e.key = <<":">> -> [ed EXCEPT !.mode = "command", !.commandBuffer = <<>>]
      [] OTHER -> ed

\* handleNormalMode that gives a key that is no motion to the normal keys
handleNormalModeReusingKey(ed, e) ==
    IF ed.normalModeBuffer = <<"d">>
       /\ e.key \in {<<"d">>, <<"j">>, <<"k">>, <<"$">>, <<"0">>, <<"w">>, <<"l">>, <<"h">>, <<"A","r","r","o","w","D","o","w","n">>, <<"A","r","r","o","w","U","p">>, <<"A","r","r","o","w","L","e","f","t">>, <<"A","r","r","o","w","R","i","g","h","t">>}
    THEN handleDeleteMotion(ed, e.key)
    ELSE NormalKey([ed EXCEPT !.normalModeBuffer = <<>>], e)

\* handleNormalMode(e)
handleNormalMode(ed, e) ==
    IF ed.normalModeBuffer = <<"d">> THEN handleDeleteMotion(ed, e.key)
    ELSE NormalKey([ed EXCEPT !.normalModeBuffer = <<>>], e)

\* handleInsertMode whose Backspace at column 0 joins the lines and leaves
\* the cursor at column 0
handleInsertModeJoinAtStart(ed, e) ==
    CASE e.key = <<"E","s","c","a","p","e">> -> [ed EXCEPT !.mode = "normal", !.cursorCol = ColLeft(ed)]
      [] e.key = <<"E","n","t","e","r">> ->
            [ed EXCEPT !.lines = Splice(@, ed.cursorRow, 1,
                                        << Slice(CurLine(ed), 0, ed.cursorCol),
                                           SliceFrom(CurLine(ed), ed.cursorCol) >>),
                       !.cursorRow = @ + 1, !.cursorCol = 0, !.modified = TRUE]
      [] e.key = <<"B","a","c","k","s","p","a","c","e">> ->
            IF ed.cursorCol > 0
            THEN [SetLine(ed, Slice(CurLine(ed), 0, ed.cursorCol - 1)
                              \o SliceFrom(CurLine(ed), ed.cursorCol))
                    EXCEPT !.cursorCol = @ - 1, !.modified = TRUE]
            ELSE IF ed.cursorRow > 0
            THEN [ed EXCEPT !.lines = Splice(@, ed.cursorRow - 1, 2,
                                             << ed.lines[ed.cursorRow] \o CurLine(ed) >>),
                            !.cursorRow = @ - 1, !.modified = TRUE]
            ELSE ed
      [] Len(e.key) = 1 /\ ~e.ctrlKey /\ ~e.metaKey ->
            [SetLine(ed, Slice(CurLine(ed), 0, ed.cursorCol) \o e.key
                         \o SliceFrom(CurLine(ed), ed.cursorCol))
               EXCEPT !.cursorCol = @ + 1, !.modified = TRUE]
      [] OTHER -> ed

\* handleInsertMode(e)
handleInsertMode(ed, e) ==
    CASE e.key = <<"E","s","c","a","p","e">> -> [ed EXCEPT !.mode = "normal", !.cursorCol = ColLeft(ed)]
      [] e.key = <<"E","n","t","e","r">> ->
            [ed EXCEPT !.lines = Splice(@, ed.cursorRow, 1,
                                        << Slice(CurLine(ed), 0, ed.cursorCol),
                                           SliceFrom(CurLine(ed), ed.cursorCol) >>),
                       !.cursorRow = @ + 1, !.cursorCol = 0, !.modified = TRUE]
      [] e.key = <<"B","a","c","k","s","p","a","c","e">> ->
            IF ed.cursorCol > 0
            THEN [SetLine(ed, Slice(CurLine(ed), 0, ed.cursorCol - 1)
                              \o SliceFrom(CurLine(ed), ed.cursorCol))
                    EXCEPT !.cursorCol = @ - 1, !.modified = TRUE]
            ELSE IF ed.cursorRow > 0
            THEN [ed EXCEPT !.lines = Splice(@, ed.cursorRow - 1, 2,
                                             << ed.lines[ed.cursorRow] \o CurLine(ed) >>),
                            !.cursorRow = @ - 1, !.cursorCol = Len(ed.lines[ed.cursorRow]),
                            !.modified = TRUE]
            ELSE ed
      [] Len(e.key) = 1 /\ ~e.ctrlKey /\ ~e.metaKey ->
            [SetLine(ed, Slice(CurLine(ed), 0, ed.cursorCol) \o e.key
                         \o SliceFrom(CurLine(ed), ed.cursorCol))
               EXCEPT !.cursorCol = @ + 1, !.modified = TRUE]
      [] OTHER -> ed

\* save() that leaves the modified flag as it was
saveKeepModified(ed) ==
    [ed EXCEPT !.calls = Append(@, [cb |-> "save", filename |-> ed.filename,
                                    content |-> Join(ed.lines, <<NL>>)])]

\* save() that also takes the cursor back to the start of the buffer
saveAndRewind(ed) ==
    [ed EXCEPT !.calls = Append(@, [cb |-> "save", filename |-> ed.filename,
                                    content |-> Join(ed.lines, <<NL>>)]),
               !.modified = FALSE, !.cursorRow = 0, !.cursorCol = 0]

\* save(): the callback gets the filename and the joined lines
save(ed) ==
    [ed EXCEPT !.calls = Append(@, [cb |-> "save", filename |-> ed.filename,
                                    content |-> Join(ed.lines, <<NL>>)]),
               !.modified = FALSE]

\* close() with the keydown listener left attached
closeKeepListening(ed) ==
    [ed EXCEPT !.calls = Append(@, [cb |-> "exit", filename |-> ed.filename, content |-> <<>>])]

\* close(): the listener is removed and the exit callback runs
close(ed) ==
    [ed EXCEPT !.open = FALSE,
               !.calls = Append(@, [cb |-> "exit", filename |-> ed.filename, content |-> <<>>])]

\* executeCommand that closes before it saves on wq and x
executeCommandCloseFirst(ed, cmd) ==
    CASE cmd = <<"w">> -> [save(ed) EXCEPT !.mode = "normal"]
      [] cmd = <<"q">> -> IF ed.modified THEN [ed EXCEPT !.mode = "normal"] ELSE close(ed)
      [] cmd = <<"q","!">> -> close(ed)
      [] cmd \in {<<"w","q">>, <<"x">>} -> save(close(ed))
      [] OTHER -> [ed EXCEPT !.mode = "normal"]

\* executeCommand(cmd)
executeCommand(ed, cmd) ==
    CASE cmd = <<"w">> ->
            [save(ed) EXCEPT !.message = <<"\"">> \o ed.filename \o <<"\""," ">> \o NatStr(Len(ed.lines))
                                         \o <<"L"," ","w","r","i","t","t","e","n">>,
                             !.mode = "normal"]
      [] cmd = <<"q">> ->
            IF ed.modified
            THEN [ed EXCEPT !.message = <<"N","o"," ","w","r","i","t","e"," ","s","i","n","c","e"," ","l","a","s","t"," ","c","h","a","n","g","e"," ","(","a","d","d"," ","!"," ","t","o"," ","o","v","e","r","r","i","d","e",")">>,
                            !.mode = "normal"]
            ELSE close(ed)
      [] cmd = <<"q","!">> -> close(ed)
      [] cmd \in {<<"w","q">>, <<"x">>} -> close(save(ed))
      [] OTHER -> [ed EXCEPT !.message = <<"N","o","t"," ","a","n"," ","e","d","i","t","o","r"," ","c","o","m","m","a","n","d",":"," ">> \o cmd, !.mode = "normal"]

\* handleCommandMode with a Backspace that stays in command mode
handleCommandModeStay(ed, e) ==
    CASE e.key = <<"E","s","c","a","p","e">> -> [ed EXCEPT !.mode = "normal", !.commandBuffer = <<>>]
      [] e.key = <<"E","n","t","e","r">> -> [executeCommand(ed, ed.commandBuffer) EXCEPT !.commandBuffer = <<>>]
      [] e.key = <<"B","a","c","k","s","p","a","c","e">> -> [ed EXCEPT !.commandBuffer = Slice(@, 0, Len(@) - 1)]
      [] Len(e.key) = 1 /\ ~e.ctrlKey /\ ~e.metaKey -> [ed EXCEPT !.commandBuffer = @ \o e.key]
      [] OTHER -> ed

\* handleCommandMode(e)
handleCommandMode(ed, e) ==
    CASE e.key = <<"E","s","c","a","p","e">> -> [ed EXCEPT !.mode = "normal", !.commandBuffer = <<>>]
      [] e.key = <<"E","n","t","e","r">> -> [executeCommand(ed, ed.commandBuffer) EXCEPT !.commandBuffer = <<>>]
      [] e.key = <<"B","a","c","k","s","p","a","c","e">> ->
            [ed EXCEPT !.commandBuffer = Slice(@, 0, Len(@) - 1),
                       !.mode = IF Len(ed.commandBuffer) <= 1 THEN "normal" ELSE @]
      [] Len(e.key) = 1 /\ ~e.ctrlKey /\ ~e.metaKey -> [ed EXCEPT !.commandBuffer = @ \o e.key]
      [] OTHER -> ed

\* the handler of the mode
KeyInMode(ed, e) ==
    CASE ed.mode = "normal" -> handleNormalMode(ed, e)
      [] ed.mode = "insert" -> handleInsertMode(ed, e)
      [] ed.mode = "command" -> handleCommandMode(ed, e)

\* handleKey(e)
handleKey(ed, e) == KeyInMode([ed EXCEPT !.message = <<>>, !.calls = <<>>, !.keys = @ + 1], e)

\* openEditor: reads the file and constructs the editor on its content
openEditor(sh, filename) ==
    Ret([sh EXCEPT !.editor = ViEditor(filename,
                                       IF IsFile(getNode(sh, resolvePath(sh, filename)))
                                       THEN getNode(sh, resolvePath(sh, filename)).c ELSE <<>>)],
        <<"_","_","V","I","_","O","P","E","N","E","D","_","_">>)

cmd_vi(sh, args) == openEditor(sh, IF NoArg0(args) THEN <<"u","n","t","i","t","l","e","d">> ELSE args[1])

cmd_vim(sh, args) == openEditor(sh, IF NoArg0(args) THEN <<"u","n","t","i","t","l","e","d">> ELSE args[1])

\* pathPrefix.lastIndexOf('/') + 1: the length of the directory part
DirPartLength(pathPrefix) ==
    IF HasChar(pathPrefix, SLASH)
    THEN CHOOSE i \in 1..Len(pathPrefix) :
            pathPrefix[i] = SLASH /\ \A j \in (i + 1)..Len(pathPrefix) : pathPrefix[j] # SLASH
    ELSE 0

\* names.map(name => typeof node[name] === 'object' ? name + '/' : name)
MarkDirs(node, names) ==
    [i \in 1..Len(names) |-> IF IsDir(Child(node, names[i])) THEN names[i] \o <<SLASH>> ELSE names[i]]

\* the matches with no slash after directories
PathMatchesUnmarked(node, filePrefix) ==
    IF ~Truthy(node) \/ ~IsDir(node) THEN <<>>
    ELSE SelectSeq(Keys(node), LAMBDA name : StartsWith(name, filePrefix))

\* the matches of getCompletions in the node of the search directory
PathMatches(node, filePrefix) ==
    IF ~Truthy(node) \/ ~IsDir(node) THEN <<>>
    ELSE MarkDirs(node, SelectSeq(Keys(node), LAMBDA name : StartsWith(name, filePrefix)))

\* getCompletions from the last part on
PathCompletions(sh, pathPrefix, searchDir, filePrefix) ==
    IF ~Truthy(getNode(sh, searchDir)) \/ ~IsDir(getNode(sh, searchDir))
    THEN [type |-> "path", matches |-> <<>>, prefix |-> pathPrefix]
    ELSE [type |-> "path", matches |-> PathMatches(getNode(sh, searchDir), filePrefix),
          prefix |-> pathPrefix, filePrefix |-> filePrefix]

\* getCompletions on the parts of the trimmed input
CompletionsOf(sh, parts) ==
    IF Len(parts) = 1
    THEN [type |-> "command",
          matches |-> SelectSeq(CommandNames, LAMBDA cmd : StartsWith(cmd, parts[1])),
          prefix |-> parts[1]]
    ELSE IF HasChar(Last(parts), SLASH)
    THEN PathCompletions(sh, Last(parts),
                         resolvePath(sh, TakeFirst(Last(parts), DirPartLength(Last(parts)))),
                         DropFirst(Last(parts), DirPartLength(Last(parts))))
    ELSE PathCompletions(sh, Last(parts), sh.path, Last(parts))

\* getCompletions(partial)
getCompletions(sh, partial) == CompletionsOf(sh, SplitWs(Trim(partial)))

RECURSIVE Dispatch(_, _, _)

\* a sudo that runs the named command as root and returns to the user
cmd_sudoAsRoot(sh, args) ==
    IF args # <<>> /\ args[1] = <<"s","u">> THEN cmd_su(sh, Tail(args))
    ELSE IF args # <<>> /\ IsCommand(args[1])
    THEN [Dispatch([sh EXCEPT !.user = sRoot], args[1], Tail(args)) EXCEPT !.sh.user = sh.user]
    ELSE Ret(sh, <<"s","u","d","o",":"," ">> \o (IF args = <<>> THEN sUndefined ELSE args[1]) \o <<":"," ","c","o","m","m","a","n","d"," ","n","o","t"," ","f","o","u","n","d">>)

cmd_sudo(sh, args) ==
    IF args # <<>> /\ args[1] = <<"s","u">> THEN cmd_su(sh, Tail(args))
    ELSE LET command == IF args = <<>> THEN sUndefined ELSE args[1]
             cmdArgs == IF args = <<>> THEN <<>> ELSE Tail(args)
         IN  IF IsCommand(command) THEN Dispatch(sh, command, cmdArgs)
             ELSE Ret(sh, <<"s","u","d","o",":"," ">> \o command \o <<":"," ","c","o","m","m","a","n","d"," ","n","o","t"," ","f","o","u","n","d">>)

\* this.commands[command](args)
Dispatch(sh, command, args) ==
    CASE command = <<"h","e","l","p">> -> cmd_help(sh, args)
      [] command = <<"l","s">> -> cmd_ls(sh, args)
      [] command = <<"c","d">> -> cmd_cd(sh, args)
      [] command = <<"p","w","d">> -> cmd_pwd(sh, args)
      [] command = <<"c","a","t">> -> cmd_cat(sh, args)
      [] command = <<"e","c","h","o">> -> cmd_echo(sh, args)
      [] command = <<"c","l","e","a","r">> -> cmd_clear(sh, args)
      [] command = <<"w","h","o","a","m","i">> -> cmd_whoami(sh, args)
      [] command = <<"d","a","t","e">> -> cmd_date(sh, args)
      [] command = <<"u","n","a","m","e">> -> cmd_uname(sh, args)
      [] command = <<"e","n","v">> -> cmd_env(sh, args)
      [] command = <<"h","i","s","t","o","r","y">> -> cmd_history(sh, args)
      [] command = <<"m","k","d","i","r">> -> cmd_mkdir(sh, args)
      [] command = <<"t","o","u","c","h">> -> cmd_touch(sh, args)
      [] command = <<"r","m">> -> cmd_rm(sh, args)
      [] command = <<"t","r","e","e">> -> cmd_tree(sh, args)
      [] command = <<"p","s">> -> cmd_ps(sh, args)
      [] command = <<"v","i">> -> cmd_vi(sh, args)
      [] command = <<"v","i","m">> -> cmd_vim(sh, args)
      [] command = <<"s","u">> -> cmd_su(sh, args)
      [] command = <<"s","u","d","o">> -> cmd_sudo(sh, args)
      [] command = <<"e","x","i","t">> -> cmd_exit(sh, args)
      [] ~IsRegistered(command) -> cmd_inherited(sh, command, args)

----------------------------------------------------------------------------
(* expandWildcards                                                         *)

\* arg.replace(/\*/g, '.*').replace(/\?/g, '.')
RECURSIVE WildcardPattern(_)
WildcardPattern(arg) ==
    IF arg = <<>> THEN <<>>
    ELSE IF Head(arg) = "*" THEN <<".", "*">> \o WildcardPattern(Tail(arg))
    ELSE IF Head(arg) = "?" THEN <<".">> \o WildcardPattern(Tail(arg))
    ELSE <<Head(arg)>> \o WildcardPattern(Tail(arg))

\* new RegExp(...) raises a SyntaxError on an unterminated group
RegExpThrows(pattern) == HasChar(pattern, "(") /\ ~HasChar(pattern, ")")

\* what a regular-expression '.' matches: anything but a line terminator
DotMatches(c) == c # NL

\* new RegExp('^' + pattern + '$').test(name), for patterns of literal
\* characters, '.', and a '*' after either
RECURSIVE RegexTest(_, _)
RegexTest(pattern, name) ==
    IF pattern = <<>> THEN name = <<>>
    ELSE LET atomMatches(c) == IF Head(pattern) = "." THEN DotMatches(c) ELSE c = Head(pattern)
         IN  IF Len(pattern) >= 2 /\ pattern[2] = "*"
             THEN \/ RegexTest(DropFirst(pattern, 2), name)
                  \/ (name # <<>> /\ atomMatches(Head(name)) /\ RegexTest(pattern, Tail(name)))
             ELSE name # <<>> /\ atomMatches(Head(name)) /\ RegexTest(Tail(pattern), Tail(name))

\* a glob in which '*' is any run of characters, '?' any one character and
\* every other character stands for itself
RECURSIVE GlobTest(_, _)
GlobTest(glob, name) ==
    IF glob = <<>> THEN name = <<>>
    ELSE IF Head(glob) = "*"
         THEN GlobTest(Tail(glob), name) \/ (name # <<>> /\ GlobTest(glob, Tail(name)))
    ELSE name # <<>> /\ (Head(glob) = "?" \/ Head(glob) = Head(name))
         /\ GlobTest(Tail(glob), Tail(name))

RECURSIVE FilterNames(_, _)
FilterNames(names, pattern) ==
    IF names = <<>> THEN <<>>
    ELSE IF RegexTest(pattern, Head(names)) THEN <<Head(names)>> \o FilterNames(Tail(names), pattern)
    ELSE FilterNames(Tail(names), pattern)

IsWildcard(arg) == HasChar(arg, "*") \/ HasChar(arg, "?")

\* does expandWildcards raise on these arguments
ExpandThrows(sh, args) ==
    LET currentDir == getNode(sh, sh.path)
    IN  \E i \in 1..Len(args) :
          /\ IsWildcard(args[i])
          /\ Truthy(currentDir) /\ IsDir(currentDir)
          /\ RegExpThrows(WildcardPattern(args[i]))

RECURSIVE expandWildcards(_, _)
expandWildcards(sh, args) ==
    IF args = <<>> THEN <<>>
    ELSE LET arg == Head(args)
             currentDir == getNode(sh, sh.path)
             matches == FilterNames(Keys(currentDir), WildcardPattern(arg))
             these == IF IsWildcard(arg) /\ Truthy(currentDir) /\ IsDir(currentDir)
                         /\ matches # <<>>
                      THEN matches ELSE <<arg>>
         IN  these \o expandWildcards(sh, Tail(args))

----------------------------------------------------------------------------
(* writeToFile: [sh, err] where err is the returned error string, or       *)
(* <<>> for null                                                           *)

writeToFileAppendAlways(sh, filePath, content, mode) ==
    LET fullPath == resolvePath(sh, filePath)
        parts == PathParts(fullPath)
        fileName == PopName(parts)
        parentPath == ParentPath(fullPath)
        parent == getNode(sh, parentPath)
    IN  IF ~Truthy(parent)
        THEN [sh |-> sh, err |-> <<"b","a","s","h",":"," ">> \o filePath \o <<":"," ","N","o"," ","s","u","c","h"," ","f","i","l","e"," ","o","r"," ","d","i","r","e","c","t","o","r","y">>]
        ELSE IF ~IsDir(parent)
        THEN [sh |-> sh, err |-> <<"b","a","s","h",":"," ">> \o filePath \o <<":"," ","N","o","t"," ","a"," ","d","i","r","e","c","t","o","r","y">>]
        ELSE IF HasKey(parent, fileName) /\ IsDir(Child(parent, fileName))
        THEN [sh |-> sh, err |-> <<"b","a","s","h",":"," ">> \o filePath \o <<":"," ","I","s"," ","a"," ","d","i","r","e","c","t","o","r","y">>]
        ELSE LET new == IF HasKey(parent, fileName)
                        THEN Child(parent, fileName).c \o content ELSE content
             IN  [sh |-> [sh EXCEPT !.fs = Update(sh.fs, PathParts(resolvePath(sh, parentPath)),
                                                  "set", fileName, File(new))],
                  err |-> <<>>]

writeToFile(sh, filePath, content, mode) ==
    LET fullPath == resolvePath(sh, filePath)
        parts == PathParts(fullPath)
        fileName == PopName(parts)
        parentPath == ParentPath(fullPath)
        parent == getNode(sh, parentPath)
    IN  IF ~Truthy(parent)
        THEN [sh |-> sh, err |-> <<"b","a","s","h",":"," ">> \o filePath \o <<":"," ","N","o"," ","s","u","c","h"," ","f","i","l","e"," ","o","r"," ","d","i","r","e","c","t","o","r","y">>]
        ELSE IF ~IsDir(parent)
        THEN [sh |-> sh, err |-> <<"b","a","s","h",":"," ">> \o filePath \o <<":"," ","N","o","t"," ","a"," ","d","i","r","e","c","t","o","r","y">>]
        ELSE IF HasKey(parent, fileName) /\ IsDir(Child(parent, fileName))
        THEN [sh |-> sh, err |-> <<"b","a","s","h",":"," ">> \o filePath \o <<":"," ","I","s"," ","a"," ","d","i","r","e","c","t","o","r","y">>]
        ELSE LET new == IF mode = "append" /\ HasKey(parent, fileName)
                        THEN Child(parent, fileName).c \o content ELSE content
             IN  [sh |-> [sh EXCEPT !.fs = Update(sh.fs, PathParts(resolvePath(sh, parentPath)),
                                                  "set", fileName, File(new))],
                  err |-> <<>>]

----------------------------------------------------------------------------
(* The regular expressions of execute                                      *)

NoLineBreak(s) == ~HasChar(s, NL)

\* how many white-space characters s starts with
LeadingSpaces(s) == Len(s) - Len(TrimLeft(s))

Min(a, b) == IF a < b THEN a ELSE b

\* \s*OP\s*(.+)$ against rest, for OP one of '>>' and '>': whether it
\* matches and the text of the group
RedirTail(rest, op) ==
    LET r1 == TrimLeft(rest)
        r2 == DropFirst(r1, Len(op))
        j == Min(LeadingSpaces(r2), Len(r2) - 1)
    IN  IF StartsWith(r1, op) /\ r2 # <<>> /\ NoLineBreak(DropFirst(r2, j))
        THEN [ok |-> TRUE, file |-> DropFirst(r2, j)]
        ELSE [ok |-> FALSE, file |-> <<>>]

\* the lengths the lazy group (.+?) of /^(.+?)\s*OP\s*(.+)$/ can take
RedirSplits(s, op) ==
    {k \in 1..Len(s) : NoLineBreak(TakeFirst(s, k)) /\ RedirTail(DropFirst(s, k), op).ok}

\* s.match(/^(.+?)\s*OP\s*(.+)$/): [ok, cmd, file] with the two groups
RedirMatch(s, op) ==
    IF RedirSplits(s, op) = {} THEN [ok |-> FALSE, cmd |-> <<>>, file |-> <<>>]
    ELSE LET k == CHOOSE k \in RedirSplits(s, op) : \A m \in RedirSplits(s, op) : k <= m
         IN  [ok |-> TRUE, cmd |-> TakeFirst(s, k), file |-> RedirTail(DropFirst(s, k), op).file]

\* grepCommand.match(/^(.+?)\s*>>?\s*.+$/): [ok, cmd]
GrepRedirMatch(s) ==
    LET ks == RedirSplits(s, <<">", ">">>) \cup RedirSplits(s, <<">">>)
    IN  IF ks = {} THEN [ok |-> FALSE, cmd |-> <<>>]
        ELSE [ok |-> TRUE, cmd |-> TakeFirst(s, CHOOSE k \in ks : \A m \in ks : k <= m)]

\* index of the quote that closes the quote s starts with, 0 when there is none
ClosingQuote(s) ==
    IF \E i \in 2..Len(s) : s[i] = s[1]
    THEN CHOOSE i \in 2..Len(s) : s[i] = s[1] /\ \A j \in 2..(i - 1) : s[j] # s[1]
    ELSE 0

\* one match of /(?:[^\s"']+|"[^"]*"|'[^']*')+/ from the start of s: [tok, rest]
RECURSIVE GrepToken(_, _)
GrepToken(s, cur) ==
    IF s = <<>> THEN [tok |-> cur, rest |-> s]
    ELSE IF IsSpace(Head(s)) THEN [tok |-> cur, rest |-> s]
    ELSE IF IsQuote(Head(s))
         THEN IF ClosingQuote(s) = 0 THEN [tok |-> cur, rest |-> s]
              ELSE GrepToken(DropFirst(s, ClosingQuote(s)), cur \o TakeFirst(s, ClosingQuote(s)))
    ELSE GrepToken(Tail(s), Append(cur, Head(s)))

\* grepArgs.match(/(?:[^\s"']+|"[^"]*"|'[^']*')+/g) || []
RECURSIVE GrepParts(_)
GrepParts(s) ==
    IF s = <<>> THEN <<>>
    ELSE IF IsSpace(Head(s)) \/ (IsQuote(Head(s)) /\ ClosingQuote(s) = 0) THEN GrepParts(Tail(s))
    ELSE <<GrepToken(s, <<>>).tok>> \o GrepParts(GrepToken(s, <<>>).rest)

\* the loop over grepParts; g = [set, pattern, ignoreCase, invert]
RECURSIVE GrepFlags(_, _)
GrepFlags(parts, g) ==
    IF parts = <<>> THEN g
    ELSE IF Head(parts) = <<"-", "i">> THEN GrepFlags(Tail(parts), [g EXCEPT !.ignoreCase = TRUE])
    ELSE IF Head(parts) = <<"-", "v">> THEN GrepFlags(Tail(parts), [g EXCEPT !.invert = TRUE])
    ELSE IF ~g.set \/ g.pattern = <<>>
         THEN GrepFlags(Tail(parts), [g EXCEPT !.set = TRUE, !.pattern = StripQuotes(Head(parts))])
    ELSE GrepFlags(Tail(parts), g)

NoGrep == [set |-> FALSE, pattern |-> <<>>, ignoreCase |-> FALSE, invert |-> FALSE]

\* the pipe stage reading the pattern from the text with its redirect
PipeStagePatternWithTarget(commandLine) ==
    LET pipeIndex == IndexOf(commandLine, "|")
        beforePipe == Trim(TakeFirst(commandLine, pipeIndex))
        afterPipe == Trim(DropFirst(commandLine, pipeIndex + 1))
        grepCommand == Trim(DropFirst(afterPipe, 4))
        redirectMatch == GrepRedirMatch(grepCommand)
        grepArgs == IF redirectMatch.ok THEN Trim(redirectMatch.cmd) ELSE grepCommand
    IN  IF pipeIndex # -1 /\ (StartsWith(afterPipe, <<"g","r","e","p"," ">>) \/ afterPipe = <<"g","r","e","p">>)
        THEN [grep |-> GrepFlags(GrepParts(grepCommand), NoGrep),
              actualCommand |-> beforePipe,
              commandLine |-> IF redirectMatch.ok
                              THEN beforePipe \o <<SP>> \o DropFirst(grepCommand, Len(grepArgs))
                              ELSE commandLine]
        ELSE [grep |-> NoGrep, actualCommand |-> commandLine, commandLine |-> commandLine]

\* the pipe stage of execute: [grep, actualCommand, commandLine]
PipeStage(commandLine) ==
    LET pipeIndex == IndexOf(commandLine, "|")
        beforePipe == Trim(TakeFirst(commandLine, pipeIndex))
        afterPipe == Trim(DropFirst(commandLine, pipeIndex + 1))
        grepCommand == Trim(DropFirst(afterPipe, 4))
        redirectMatch == GrepRedirMatch(grepCommand)
        grepArgs == IF redirectMatch.ok THEN Trim(redirectMatch.cmd) ELSE grepCommand
    IN  IF pipeIndex # -1 /\ (StartsWith(afterPipe, <<"g","r","e","p"," ">>) \/ afterPipe = <<"g","r","e","p">>)
        THEN [grep |-> GrepFlags(GrepParts(grepArgs), NoGrep),
              actualCommand |-> beforePipe,
              commandLine |-> IF redirectMatch.ok
                              THEN beforePipe \o <<SP>> \o DropFirst(grepCommand, Len(grepArgs))
                              ELSE commandLine]
        ELSE [grep |-> NoGrep, actualCommand |-> commandLine, commandLine |-> commandLine]

\* the redirect stage of execute: [mode, file, actualCommand]
RedirectStage(pipe) ==
    LET appendMatch == RedirMatch(pipe.commandLine, <<">", ">">>)
        overwriteMatch == RedirMatch(pipe.commandLine, <<">">>)
    IN  IF appendMatch.ok
        THEN [mode |-> "append", file |-> Trim(appendMatch.file),
              actualCommand |-> Trim(appendMatch.cmd)]
        ELSE IF overwriteMatch.ok
        THEN [mode |-> "overwrite", file |-> Trim(overwriteMatch.file),
              actualCommand |-> Trim(overwriteMatch.cmd)]
        ELSE [mode |-> "none", file |-> <<>>, actualCommand |-> pipe.actualCommand]

\* the grep filter applied to the handler's output
RECURSIVE GrepLines(_, _)
GrepLines(lines, g) ==
    IF lines = <<>> THEN <<>>
    ELSE LET matches == IF g.ignoreCase
                        THEN Includes(ToLowerCase(Head(lines)), ToLowerCase(g.pattern))
                        ELSE Includes(Head(lines), g.pattern)
             keep == IF g.invert THEN ~matches ELSE matches
         IN  (IF keep THEN <<Head(lines)>> ELSE <<>>) \o GrepLines(Tail(lines), g)

\* the filter without the removal of a final newline
GrepFilterNoTrim(output, g) == Join(GrepLines(Split(output, NL), g), <<NL>>)

GrepFilter(output, g) ==
    LET joined == Join(GrepLines(Split(output, NL), g), <<NL>>)
    IN  IF EndsWith(joined, <<NL, NL>>) THEN Front(joined) ELSE joined

----------------------------------------------------------------------------
(* execute: [sh, val, thrown, save] - the shell afterwards, the returned   *)
(* string, whether the call raised to its caller instead of returning, and *)
(* whether saveToStorage was called                                        *)

Outcome(sh, val, thrown, saves) == [sh |-> sh, val |-> val, thrown |-> thrown, save |-> saves]

\* the redirection write of execute and what it returns
ExecRedirected(sh2, w) ==
    IF w.err # <<>> THEN Outcome(sh2, w.err, FALSE, FALSE)
    ELSE Outcome(w.sh, <<>>, FALSE, TRUE)

\* execute after the grep filter: redirection, saveToStorage, return.  A
\* redirected value that is not a string would be stored as it is; the tree
\* of the model has no node for it, so such a line has no outcome here.
ExecFinish(sh2, output, redir) ==
    IF redir.mode # "none" /\ redir.file # <<>>
    THEN CASE IsString(output) ->
              ExecRedirected(sh2, writeToFile(sh2, redir.file, output, redir.mode))
    ELSE Outcome(sh2, output, FALSE, TRUE)

\* execute after the handler has run with result r: the catch clause, the
\* reset of _isPiped and the grep filter (output.split raises a TypeError,
\* outside the try block, on a value that is not a string)
ExecHandled(r, command, grep, redir) ==
    IF r.thrown
    THEN Outcome(r.sh, <<"E","r","r","o","r"," ","e","x","e","c","u","t","i","n","g"," ">> \o command \o <<":"," ">> \o r.out, FALSE, FALSE)
    ELSE IF grep.set /\ JsTruthy(r.out) /\ ~IsString(r.out)
    THEN Outcome([r.sh EXCEPT !.piped = FALSE], <<>>, TRUE, FALSE)
    ELSE ExecFinish([r.sh EXCEPT !.piped = FALSE],
                    IF grep.set /\ JsTruthy(r.out) THEN GrepFilter(r.out, grep) ELSE r.out,
                    redir)

\* execute from the tokenised command on, taking an unknown command's line
\* back out of the history
ExecRunForgetUnknown(sh1, command, args, grep, redir) ==
    IF ExpandThrows(sh1, args) THEN Outcome(sh1, <<>>, TRUE, FALSE)
    ELSE IF ~IsCommand(command)
    THEN Outcome([sh1 EXCEPT !.hist = Front(@)], command \o <<":"," ","c","o","m","m","a","n","d"," ","n","o","t"," ","f","o","u","n","d">>, FALSE, FALSE)
    ELSE ExecHandled(Dispatch([sh1 EXCEPT !.piped = grep.set], command,
                              expandWildcards(sh1, args)),
                     command, grep, redir)

\* execute from the tokenised command on: wildcard expansion outside the
\* try block, then the handler inside it
ExecRun(sh1, command, args, grep, redir) ==
    IF ExpandThrows(sh1, args) THEN Outcome(sh1, <<>>, TRUE, FALSE)
    ELSE IF ~IsCommand(command)
    THEN Outcome(sh1, command \o <<":"," ","c","o","m","m","a","n","d"," ","n","o","t"," ","f","o","u","n","d">>, FALSE, FALSE)
    ELSE ExecHandled(Dispatch([sh1 EXCEPT !.piped = grep.set], command,
                              expandWildcards(sh1, args)),
                     command, grep, redir)

ExecTokens(sh1, parts, grep, redir) == ExecRun(sh1, parts[1], Tail(parts), grep, redir)

ExecParsed(sh1, grep, redir) ==
    ExecTokens(sh1, SplitWs(Trim(redir.actualCommand)), grep, redir)

ExecPiped(sh1, pipe) == ExecParsed(sh1, pipe.grep, RedirectStage(pipe))

execute(sh0, commandLine) ==
    IF Trim(commandLine) = <<>> THEN Outcome(sh0, <<>>, FALSE, FALSE)
    ELSE ExecPiped([sh0 EXCEPT !.hist = Append(@, commandLine)], PipeStage(commandLine))

----------------------------------------------------------------------------
(* Persistence: JSON.stringify / JSON.parse of the filesystem and the      *)
(* three localStorage items of the shell's prefix.                         *)

QUOTE == "\""
BACKSLASH == "\\"

\* the characters of a JSON string literal for s, without the quotes
RECURSIVE JsonEscape(_)
JsonEscape(s) ==
    IF s = <<>> THEN <<>>
    ELSE (CASE Head(s) = QUOTE -> <<BACKSLASH, QUOTE>>
            [] Head(s) = BACKSLASH -> <<BACKSLASH, BACKSLASH>>
            [] Head(s) = NL -> <<BACKSLASH, "n">>
            [] Head(s) = "\t" -> <<BACKSLASH, "t">>
            [] OTHER -> <<Head(s)>>) \o JsonEscape(Tail(s))

JsonQuote(s) == <<QUOTE>> \o JsonEscape(s) \o <<QUOTE>>

\* JSON.stringify of a node: a file is a string, a directory an object of
\* its own entries in their order
RECURSIVE JsonNode(_)
RECURSIVE JsonMembers(_)
JsonMembers(entries) ==
    IF entries = <<>> THEN <<>>
    ELSE JsonQuote(Head(entries).n) \o <<":">> \o JsonNode(Head(entries).v)
         \o (IF Len(entries) > 1 THEN <<",">> ELSE <<>>) \o JsonMembers(Tail(entries))
JsonNode(node) ==
    IF IsFile(node) THEN JsonQuote(node.c)
    ELSE <<"{">> \o JsonMembers(node.e) \o <<"}">>

\* JSON.stringify(this.fileSystem), the object { '/': root }
JsonStringify(root) == <<"{">> \o JsonQuote(<<SLASH>>) \o <<":">> \o JsonNode(root) \o <<"}">>

\* A parse result: [ok, v, rest] - whether a value was read, the value, and
\* the text after it.
Parsed(v, rest) == [ok |-> TRUE, v |-> v, rest |-> rest]
ParseError == [ok |-> FALSE, v |-> Null, rest |-> <<>>]

\* the rest of a string literal after its opening quote, acc read so far
RECURSIVE ParseChars(_, _)
ParseChars(text, acc) ==
    IF text = <<>> THEN ParseError
    ELSE IF Head(text) = QUOTE THEN Parsed(acc, Tail(text))
    ELSE IF Head(text) = NL THEN ParseError
    ELSE IF Head(text) # BACKSLASH THEN ParseChars(Tail(text), Append(acc, Head(text)))
    ELSE IF Len(text) < 2 THEN ParseError
    ELSE CASE text[2] = "n" -> ParseChars(DropFirst(text, 2), Append(acc, NL))
           [] text[2] = "t" -> ParseChars(DropFirst(text, 2), Append(acc, "\t"))
           [] text[2] \in {QUOTE, BACKSLASH, SLASH} ->
                ParseChars(DropFirst(text, 2), Append(acc, text[2]))
           [] OTHER -> ParseError

\* a string literal as a node
ParseStringNode(r) == IF r.ok THEN Parsed(File(r.v), r.rest) ELSE ParseError

\* JSON.parse for texts made of objects and strings without white space
\* (every other text is taken as malformed)
RECURSIVE ParseValue(_)
RECURSIVE ParseMembers(_, _)
RECURSIVE ParseMemberValue(_, _)
RECURSIVE ParseMemberEnd(_, _, _)
ParseValue(text) ==
    IF text = <<>> THEN ParseError
    ELSE IF Head(text) = QUOTE THEN ParseStringNode(ParseChars(Tail(text), <<>>))
    ELSE IF Head(text) # "{" THEN ParseError
    ELSE IF Len(text) >= 2 /\ text[2] = "}" THEN Parsed(Dir(<<>>), DropFirst(text, 2))
    ELSE ParseMembers(Tail(text), Dir(<<>>))

\* the members of an object from a key on, dir read so far
ParseMembers(text, dir) ==
    IF text = <<>> \/ Head(text) # QUOTE THEN ParseError
    ELSE ParseMemberValue(ParseChars(Tail(text), <<>>), dir)

ParseMemberValue(key, dir) ==
    IF ~key.ok \/ key.rest = <<>> \/ Head(key.rest) # ":" THEN ParseError
    ELSE ParseMemberEnd(key.v, ParseValue(Tail(key.rest)), dir)

ParseMemberEnd(name, value, dir) ==
    IF ~value.ok \/ value.rest = <<>> THEN ParseError
    ELSE IF Head(value.rest) = "}" THEN Parsed(SetKey(dir, name, value.v), Tail(value.rest))
    ELSE IF Head(value.rest) = "," THEN ParseMembers(Tail(value.rest), SetKey(dir, name, value.v))
    ELSE ParseError

\* JSON.parse(text): the value, when the whole text is one value
JsonParse(text) == LET r == ParseValue(text) IN IF r.ok /\ r.rest = <<>> THEN r ELSE ParseError

\* localStorage.getItem: an item is absent (null) or a text
NoItem == [has |-> FALSE, text |-> <<>>]
Item(text) == [has |-> TRUE, text |-> text]

\* the three items of the prefix, nothing stored
EmptyStorage == [filesystem |-> NoItem, current_user |-> NoItem, current_path |-> NoItem]

\* !savedFS : null or the empty string
NoText(item) == ~item.has \/ item.text = <<>>

NotLoaded == [ok |-> FALSE, fs |-> Null, user |-> <<>>, path |-> <<>>]

\* loadFromStorage after JSON.parse: the root check and the walk along the
\* saved path.  The shell keeps the root of the parsed object.
LoadParsed(parsed, savedUser, savedPath) ==
    IF ~parsed.ok \/ ~IsDir(parsed.v) \/ ~HasKey(parsed.v, <<SLASH>>) THEN NotLoaded
    ELSE IF ~Truthy(Child(parsed.v, <<SLASH>>)) THEN NotLoaded
    ELSE IF Walk(Child(parsed.v, <<SLASH>>), PathParts(savedPath)) = Null THEN NotLoaded
    ELSE [ok |-> TRUE, fs |-> Child(parsed.v, <<SLASH>>), user |-> savedUser, path |-> savedPath]

loadFromStorage(storage) ==
    IF NoText(storage.filesystem) \/ NoText(storage.current_user) \/ NoText(storage.current_path)
    THEN NotLoaded
    ELSE LoadParsed(JsonParse(storage.filesystem.text), storage.current_user.text,
                    storage.current_path.text)

\* saveToStorage
saveToStorage(sh, enabled, storage) ==
    IF ~enabled THEN storage
    ELSE [filesystem |-> Item(JsonStringify(sh.fs)), current_user |-> Item(sh.user),
          current_path |-> Item(sh.path)]

\* clearStorage
clearStorage(enabled, storage) == IF ~enabled THEN storage ELSE EmptyStorage

----------------------------------------------------------------------------
(* The state machine                                                       *)

\* the host clock: what new Date() prints, in full and in the short form of ls -l
Clock == { [full |-> <<"S","u","n"," ","N","o","v"," ","0","1"," ","2","0","2","6"," ","1","0",":","0","0",":","0","0"," ","G","M","T","+","0","0","0","0"," ","(","C","o","o","r","d","i","n","a","t","e","d"," ","U","n","i","v","e","r","s","a","l"," ","T","i","m","e",")">>,
            short |-> <<"N","o","v"," ","1",","," ","1","0",":","0","0"," ","A","M">>] }

\* the shell object at a call
Shell(now) ==
    [fs |-> fileSystem, user |-> currentUser, path |-> currentPath, env |-> environment,
     hist |-> commandHistory, stack |-> userStack, piped |-> isPiped, now |-> now,
     editor |-> editor]

\* createDefaultFileSystem(username)
createDefaultFileSystem(username) ==
    Dir(<< Entry(<<"h","o","m","e">>, Dir(<< Entry(username, Dir(<<
               Entry(<<"R","E","A","D","M","E",".","m","d">>, File(<<"#"," ","W","e","l","c","o","m","e","\n","\n","T","h","i","s"," ","i","s"," ","a"," ","s","i","m","p","l","e"," ","U","n","i","x"," ","s","h","e","l","l"," ","e","m","u","l","a","t","o","r",".","\n">>)),
               Entry(<<"e","x","a","m","p","l","e",".","t","x","t">>, File(<<"T","h","i","s"," ","i","s"," ","a","n"," ","e","x","a","m","p","l","e"," ","f","i","l","e",".","\n">>)) >>)) >>)),
           Entry(<<"e","t","c">>, Dir(<< Entry(<<"h","o","s","t","n","a","m","e">>, File(<<"l","o","c","a","l","h","o","s","t","\n">>)) >>)),
           Entry(<<"t","m","p">>, Dir(<<>>)) >>)

\* the fields the constructor sets, from the loaded state when there is one
Constructed(username, fs, loaded) ==
    [fs |-> IF loaded.ok THEN loaded.fs ELSE fs,
     user |-> IF loaded.ok THEN loaded.user ELSE username,
     path |-> IF loaded.ok THEN loaded.path ELSE sHomeSlash \o username]

\* the state after new UnixShell({ username, fileSystem, persistence: { enabled } })
\* run against the items in storage
ConstructWith(username, fs, enabled, storage) ==
    \E c \in {Constructed(username, fs, IF enabled THEN loadFromStorage(storage) ELSE NotLoaded)} :
      /\ fileSystem = c.fs
      /\ currentUser = c.user
      /\ currentPath = c.path
      /\ userStack = <<>>
      /\ environment = [USER |-> c.user, HOME |-> sHomeSlash \o c.user, PWD |-> c.path]
      /\ commandHistory = <<>>
      /\ isPiped = FALSE
      /\ persistence = enabled
      /\ localStorage = storage
      /\ editor = NoEditor
      /\ call = [op |-> "new", arg |-> username]
      /\ ret = [thrown |-> FALSE, val |-> <<>>]

\* new UnixShell({ username, fileSystem }) without persistence
Construct(username, fs) == ConstructWith(username, fs, FALSE, EmptyStorage)

\* a later new UnixShell({ username, fileSystem, persistence: { enabled } }):
\* the model follows the new shell; localStorage is the host's and stays
NewShell(username, fs, enabled) ==
    \E c \in {Constructed(username, fs, IF enabled THEN loadFromStorage(localStorage) ELSE NotLoaded)} :
      /\ fileSystem' = c.fs
      /\ currentUser' = c.user
      /\ currentPath' = c.path
      /\ userStack' = <<>>
      /\ environment' = [USER |-> c.user, HOME |-> sHomeSlash \o c.user, PWD |-> c.path]
      /\ commandHistory' = <<>>
      /\ isPiped' = FALSE
      /\ persistence' = enabled
      /\ call' = [op |-> "new", arg |-> username]
      /\ ret' = [thrown |-> FALSE, val |-> <<>>]
      /\ UNCHANGED <<localStorage, editor>>

\* shell.execute(line)
Execute(line) ==
    \E now \in Clock : \E r \in {execute(Shell(now), line)} :
      /\ fileSystem' = r.sh.fs
      /\ currentUser' = r.sh.user
      /\ currentPath' = r.sh.path
      /\ environment' = r.sh.env
      /\ commandHistory' = r.sh.hist
      /\ userStack' = r.sh.stack
      /\ isPiped' = r.sh.piped
      /\ editor' = r.sh.editor
      /\ localStorage' = IF r.save THEN saveToStorage(r.sh, persistence, localStorage)
                         ELSE localStorage
      /\ call' = [op |-> "execute", arg |-> line]
      /\ ret' = [thrown |-> r.thrown, val |-> r.val]
      /\ UNCHANGED persistence

\* shell.clearStorage()
ClearStorage ==
    /\ localStorage' = clearStorage(persistence, localStorage)
    /\ call' = [op |-> "clearStorage", arg |-> <<>>]
    /\ ret' = [thrown |-> FALSE, val |-> <<>>]
    /\ UNCHANGED <<fileSystem, currentUser, currentPath, environment, commandHistory,
                   userStack, isPiped, persistence, editor>>

\* the host page writing or removing one of the three items itself
HostSetItem(key, item) ==
    /\ localStorage' = [localStorage EXCEPT ![key] = item]
    /\ call' = [op |-> "setItem", arg |-> <<>>]
    /\ ret' = [thrown |-> FALSE, val |-> <<>>]
    /\ UNCHANGED <<fileSystem, currentUser, currentPath, environment, commandHistory,
                   userStack, isPiped, persistence, editor>>

\* the filesystem after a save callback that appends to the file
SavedAppending(sh, calls) ==
    IF calls # <<>> /\ calls[1].cb = "save"
    THEN writeToFile(sh, calls[1].filename, calls[1].content, "append").sh.fs
    ELSE sh.fs

\* the filesystem after the callbacks of a key event: the save callback of
\* openEditor is writeToFile(filename, content, 'overwrite'), and nothing
\* looks at what it returns
Saved(sh, calls) ==
    IF calls # <<>> /\ calls[1].cb = "save"
    THEN writeToFile(sh, calls[1].filename, calls[1].content, "overwrite").sh.fs
    ELSE sh.fs

\* a keydown event reaching the open editor
HandleKey(e) ==
    /\ editor.open
    /\ \E now \in Clock : \E ed \in {handleKey(editor, e)} :
         /\ editor' = ed
         /\ fileSystem' = Saved(Shell(now), ed.calls)
    /\ call' = [op |-> "key", arg |-> e]
    /\ ret' = [thrown |-> FALSE, val |-> <<>>]
    /\ UNCHANGED <<currentUser, currentPath, environment, commandHistory, userStack, isPiped,
                   persistence, localStorage>>

\* a keydown event after close() has removed the listener, or before any
\* editor was constructed: no handler runs and no callback is invoked
KeyAfterClose(e) ==
    /\ ~editor.open
    /\ editor' = [editor EXCEPT !.calls = <<>>]
    /\ call' = [op |-> "key", arg |-> e]
    /\ ret' = [thrown |-> FALSE, val |-> <<>>]
    /\ UNCHANGED <<fileSystem, currentUser, currentPath, environment, commandHistory, userStack,
                   isPiped, persistence, localStorage>>

shellVars == <<fileSystem, currentUser, currentPath, environment, commandHistory,
               userStack, isPiped, persistence, localStorage, editor>>

\* shell.getCompletions(partial)
GetCompletions(partial) ==
    /\ call' = [op |-> "getCompletions", arg |-> partial]
    /\ ret' = [thrown |-> FALSE, val |-> getCompletions(Shell(CHOOSE now \in Clock : TRUE), partial)]
    /\ UNCHANGED shellVars

\* shell.resolvePath(p)
ResolvePath(p) ==
    /\ call' = [op |-> "resolvePath", arg |-> p]
    /\ ret' = [thrown |-> FALSE, val |-> resolvePath(Shell(CHOOSE now \in Clock : TRUE), p)]
    /\ UNCHANGED shellVars

\* shell.canWrite(p)
CanWrite(p) ==
    /\ call' = [op |-> "canWrite", arg |-> p]
    /\ ret' = [thrown |-> FALSE, val |-> canWrite(Shell(CHOOSE now \in Clock : TRUE), p)]
    /\ UNCHANGED shellVars

----------------------------------------------------------------------------
(* Construction.  The fileSystem option used by the specifications: two    *)
(* home directories whose names share a prefix, a file, a directory.       *)

uUser == <<"u">>
uOther == <<"u","2">>

HomeTree ==
    Dir(<< Entry(<<"h","o","m","e">>, Dir(<< Entry(uUser, Dir(<< Entry(<<"f">>, File(<<"x">>)), Entry(<<"d">>, Dir(<<>>)) >>)),
                                Entry(uOther, Dir(<<>>)) >>)),
           Entry(<<"e","t","c">>, Dir(<< Entry(<<"h","o","s","t","n","a","m","e">>, File(<<"h","\n">>)) >>)),
           Entry(<<"t","m","p">>, Dir(<<>>)) >>)

\* new UnixShell({ username: 'u', fileSystem: HomeTree }) or new UnixShell({ username: 'u' })
Init == Construct(uUser, HomeTree) \/ Construct(uUser, createDefaultFileSystem(uUser))

----------------------------------------------------------------------------
(* SpecPath: the host navigates (cd, su, exit) and calls resolvePath and   *)
(* canWrite on the shell it has reached.                                   *)

MaxNavSteps == 2

NavLines == { <<"c","d"," ",".",".">>, <<"c","d"," ","/">>, <<"c","d"," ","d">>, <<"s","u">>, <<"s","u"," ","u","2">>, <<"e","x","i","t">> }

PathInputs ==
    { <<"/">>, <<"/","h","o","m","e","/","u">>, <<"/","h","o","m","e","/","u","/","f">>, <<"/","h","o","m","e","/","u","2">>, <<"/","h","o","m","e","/","u","2","/","x">>, <<"/","e","t","c">>, <<"/",".",".","/",".",".">>, <<"/","h","o","m","e","/","u","/",".",".","/","u","2">>,
      <<"~">>, <<"~","/","f">>, <<"~","x">>, <<".">>, <<".",".">>, <<".",".","/",".",".">>, <<".",".","/",".",".","/",".",".">>, <<"f">>, <<".","/","d","/",".",".","/","f">>, <<".",".","/","u","2">>, <<>> }

NavStep == \E line \in NavLines : Len(commandHistory) < MaxNavSteps /\ Execute(line)
ResolveCall == \E p \in PathInputs : ResolvePath(p)
CanWriteCall == \E p \in PathInputs : CanWrite(p)

NextPath == NavStep \/ ResolveCall \/ CanWriteCall

SpecPath == Init /\ [][NextPath]_vars

\* the shell value of the current state (resolvePath and canWrite do not read the clock)
Now == Shell(CHOOSE now \in Clock : TRUE)

\* C2 as claimed: for a non-root user U, canWrite(p) is true exactly when the
\* resolved path is /home/U or starts with /home/U/; for root it is always true.
C2_CanWriteIffUnderHome ==
    call.op = "canWrite" =>
        ret.val = IF currentUser = sRoot THEN TRUE
                  ELSE \/ resolvePath(Now, call.arg) = sHomeSlash \o currentUser
                       \/ StartsWith(resolvePath(Now, call.arg), sHomeSlash \o currentUser \o <<SLASH>>)

\* a relative path made of '..' segments only, and how many
IsDotDotChain(p) == p # <<>> /\ \A i \in 1..Len(Split(p, SLASH)) : Split(p, SLASH)[i] = <<".", ".">>
DotDotCount(p) == Len(Split(p, SLASH))

\* C3 as claimed: a path with more '..' than directories above it resolves to
\* '/', the absolute path /../.. included.
C3_DotDotUnderflowIsRoot ==
    /\ call.op = "resolvePath" => ~ret.thrown
    /\ (call.op = "resolvePath" /\ call.arg = <<"/",".",".","/",".",".">>) => ret.val = <<SLASH>>
    /\ (call.op = "resolvePath" /\ IsDotDotChain(call.arg)
          /\ DotDotCount(call.arg) >= Len(PathParts(currentPath))) => ret.val = <<SLASH>>

\* C4: every result of resolvePath starts with '/' and resolves to itself.
C4_ResolveIdempotent ==
    call.op = "resolvePath" =>
        /\ StartsWith(ret.val, <<SLASH>>)
        /\ resolvePath(Now, ret.val) = ret.val

\* a relative path was resolved, by a user whose home is not where the shell started
C4_Witness ==
    /\ call.op = "resolvePath" /\ call.arg = <<".","/","d","/",".",".","/","f">>
    /\ currentUser = sRoot /\ currentPath = <<"/","h","o","m","e">>
    /\ ret.val = <<"/","h","o","m","e","/","f">>

----------------------------------------------------------------------------
(* SpecSu: user switching (su, sudo su, exit) interleaved with cd.         *)

MaxSuSteps == 6

SuLines == { <<"s","u"," ","u","2">>, <<"s","u","d","o"," ","s","u">>, <<"e","x","i","t">>, <<"c","d"," ","/","t","m","p">>, <<"c","d"," ",".",".">> }

InitSu == Construct(uUser, HomeTree)

SuStep == \E line \in SuLines : Len(commandHistory) < MaxSuSteps /\ Execute(line)

SpecSu == InitSu /\ [][SuStep]_vars

\* the session a su saves: user, home and path at the time of the call
Session == [user |-> currentUser, home |-> environment.HOME, path |-> currentPath]

\* C6: the user stack is a LIFO of sessions.  A step that deepens it pushes
\* exactly the session held before the step (su, sudo su); a step that
\* shortens it (exit) pops the top and restores currentUser, HOME and
\* currentPath to that session; no other step touches it.  Hence each exit
\* restores what the matching su saw, and n exits undo n nested su.
C6_SuExitLIFO ==
    [][ /\ Len(userStack') > Len(userStack) => userStack' = Append(userStack, Session)
        /\ Len(userStack') < Len(userStack) =>
              /\ userStack' = Front(userStack)
              /\ Session' = Last(userStack)
        /\ Len(userStack') = Len(userStack) => userStack' = userStack
      ]_vars

\* two nested su with a cd after each, then the first exit: the inner session is back
C6_Witness ==
    /\ commandHistory = << <<"s","u"," ","u","2">>, <<"c","d"," ","/","t","m","p">>, <<"s","u","d","o"," ","s","u">>, <<"c","d"," ",".",".">>, <<"e","x","i","t">> >>
    /\ currentUser = uOther /\ environment.HOME = <<"/","h","o","m","e","/","u","2">> /\ currentPath = <<"/","t","m","p">>
    /\ Len(userStack) = 1

\* C7: exit with an empty user stack returns the "no other user session"
\* message and changes nothing but the history.
C7_ExitOnEmptyStack ==
    [][ (call'.op = "execute" /\ call'.arg = <<"e","x","i","t">> /\ userStack = <<>>) =>
          /\ ~ret'.thrown
          /\ ret'.val = <<"e","x","i","t",":"," ","n","o"," ","o","t","h","e","r"," ","u","s","e","r"," ","s","e","s","s","i","o","n"," ","t","o"," ","r","e","t","u","r","n"," ","t","o">>
          /\ commandHistory' = Append(commandHistory, <<"e","x","i","t">>)
          /\ UNCHANGED <<fileSystem, currentUser, currentPath, environment, userStack>>
      ]_vars

\* exit was called on an empty stack, after a su and its exit
C7_Witness ==
    /\ commandHistory = << <<"s","u"," ","u","2">>, <<"e","x","i","t">>, <<"e","x","i","t">> >>
    /\ userStack = <<>>
    /\ ret.val = <<"e","x","i","t",":"," ","n","o"," ","o","t","h","e","r"," ","u","s","e","r"," ","s","e","s","s","i","o","n"," ","t","o"," ","r","e","t","u","r","n"," ","t","o">>

----------------------------------------------------------------------------
(* SpecRedirect: echo with > and >> onto f, and cat f, in several          *)
(* directories.                                                            *)

MaxRedirectSteps == 6

EchoA == <<"e","c","h","o"," ","\"","A"," ","b","\""," ",">"," ","f">>
EchoB == <<"e","c","h","o"," ","\"","B","\""," ",">"," ","f">>
EchoC == <<"e","c","h","o"," ","\"","C","\""," ",">",">"," ","f">>
CatF == <<"c","a","t"," ","f">>

RedirectLines == { EchoA, EchoB, EchoC, CatF, <<"c","d"," ","/","e","t","c">> }

RedirectStep == \E line \in RedirectLines : Len(commandHistory) < MaxRedirectSteps /\ Execute(line)

SpecRedirect == InitSu /\ [][RedirectStep]_vars

\* the line executed k calls before the last one (k = 0: the last one)
Back(k) == commandHistory[Len(commandHistory) - k]

\* C5: cat f right after echo "A b" > f returns A b; right after a second
\* echo "B" > f it returns B; after a following echo "C" >> f it returns BC;
\* and each redirecting call returns the empty string.
C5_RedirectRoundTrip ==
    LET n == Len(commandHistory)
        cat == call.op = "execute" /\ call.arg = CatF
    IN  /\ (call.op = "execute" /\ call.arg \in {EchoA, EchoB, EchoC}) => ret.val = <<>>
        /\ (cat /\ n >= 2 /\ Back(1) = EchoA) => ret.val = <<"A"," ","b">>
        /\ (cat /\ n >= 2 /\ Back(1) = EchoB) => ret.val = <<"B">>
        /\ (cat /\ n >= 3 /\ Back(1) = EchoC /\ Back(2) = EchoB) => ret.val = <<"B","C">>
        /\ (cat /\ n >= 4 /\ Back(1) = EchoC /\ Back(2) = CatF /\ Back(3) = EchoB) => ret.val = <<"B","C">>
        /\ (call.op = "execute") => ~ret.thrown

\* the whole scenario of the claim has run, over a file that held other content
C5_Witness ==
    /\ commandHistory = << EchoA, CatF, EchoB, CatF, EchoC, CatF >>
    /\ ret.val = <<"B","C">>
    /\ currentPath = <<"/","h","o","m","e","/","u">>

----------------------------------------------------------------------------
(* SpecMk: mkdir and touch on existing and new names, as u and as root.    *)

MaxMkSteps == 3

MkLines ==
    { <<"m","k","d","i","r"," ","d">>, <<"m","k","d","i","r"," ","f">>, <<"m","k","d","i","r"," ","n">>, <<"m","k","d","i","r"," ","/","e","t","c">>, <<"m","k","d","i","r"," ","/">>,
      <<"t","o","u","c","h"," ","f">>, <<"t","o","u","c","h"," ","n">>, <<"t","o","u","c","h"," ","/">>, <<"t","o","u","c","h"," ","/","e","t","c","/","h","o","s","t","n","a","m","e">>, <<"s","u">>, <<"c","d"," ","/","t","m","p">> }

MkStep == \E line \in MkLines : Len(commandHistory) < MaxMkSteps /\ Execute(line)

SpecMk == InitSu /\ [][MkStep]_vars

\* the operand of a one-operand command line
Operand(line, command) == DropFirst(line, Len(command) + 1)
Runs(line, command) == StartsWith(line, command \o <<SP>>)

\* C8 as claimed: mkdir p where p resolves to an existing name returns an
\* error containing "File exists" and leaves the filesystem unchanged, for
\* every user and every existing path.
C8_MkdirExistingFails ==
    [][ (call'.op = "execute" /\ Runs(call'.arg, <<"m","k","d","i","r">>)
           /\ getNode(Now, Operand(call'.arg, <<"m","k","d","i","r">>)).k # "null") =>
          /\ Includes(ret'.val, <<"F","i","l","e"," ","e","x","i","s","t","s">>)
          /\ fileSystem' = fileSystem
      ]_vars

\* C9 as claimed: touch p on an existing path leaves the filesystem
\* unchanged; on a new name in an existing directory the user may write it
\* adds exactly one empty file under that name.
C9_TouchFrame ==
    [][ (call'.op = "execute" /\ Runs(call'.arg, <<"t","o","u","c","h">>)) =>
          LET p == Operand(call'.arg, <<"t","o","u","c","h">>)
              path == resolvePath(Now, p)
              parent == getNode(Now, ParentPath(path))
          IN  /\ getNode(Now, p).k # "null" => fileSystem' = fileSystem
              /\ (getNode(Now, p).k = "null" /\ IsDir(parent) /\ canWrite(Now, p)) =>
                    /\ fileSystem' # fileSystem
                    /\ fileSystem' = Update(fileSystem, PathParts(ParentPath(path)), "set",
                                            Last(PathParts(path)), File(<<>>))
      ]_vars

----------------------------------------------------------------------------
(* SpecWild: wildcard arguments against a directory of three files.        *)

MaxWildSteps == 3

\* new UnixShell({ username: 'u', fileSystem: { home: { u: { 'a.txt', 'b.txt', 'c.log' } }, tmp: {} } })
WildTree ==
    Dir(<< Entry(<<"h","o","m","e">>, Dir(<< Entry(uUser, Dir(<< Entry(<<"a",".","t","x","t">>, File(<<"1">>)),
                                                    Entry(<<"b",".","t","x","t">>, File(<<"2">>)),
                                                    Entry(<<"c",".","l","o","g">>, File(<<"3">>)) >>)) >>)),
           Entry(<<"t","m","p">>, Dir(<<>>)) >>)

InitWild == Construct(uUser, WildTree)

WildLines ==
    { <<"l","s"," ","*",".","t","x","t">>, <<"l","s"," ","?",".","t","x","t">>, <<"l","s"," ","*",".","m","d">>, <<"l","s"," ","c","*">>, <<"l","s"," ","(","*">>, <<"r","m"," ","-","v"," ","*",".","t","x","t">>,
      <<"t","o","u","c","h"," ","a","t","x","t">>, <<"e","c","h","o"," ","*">>, <<"c","d"," ","/">> }

WildStep == \E line \in WildLines : Len(commandHistory) < MaxWildSteps /\ Execute(line)

SpecWild == InitWild /\ [][WildStep]_vars

\* C1 as claimed: execute never raises a fault to its caller.
C1_ExecuteNeverRaises == call.op = "execute" => ~ret.thrown

RECURSIVE GlobFilter(_, _)
GlobFilter(names, glob) ==
    IF names = <<>> THEN <<>>
    ELSE IF GlobTest(glob, Head(names)) THEN <<Head(names)>> \o GlobFilter(Tail(names), glob)
    ELSE GlobFilter(Tail(names), glob)

\* the argument list the claim describes for one wildcard argument
GlobExpand(sh, glob) ==
    LET matches == GlobFilter(Keys(getNode(sh, sh.path)), glob)
    IN  IF matches = <<>> THEN <<glob>> ELSE matches

\* C10 as claimed: a wildcard argument is replaced by the entry names of the
\* current directory that match it ('*' any run of characters, '?' exactly
\* one character), in enumeration order, and is passed on unchanged when
\* nothing matches; with entries a.txt, b.txt, c.log, rm -v *.txt reports two
\* removed lines and leaves only c.log.
C10_WildcardExpansion ==
    [][ (call'.op = "execute" /\ ~ret'.thrown) =>
          /\ Runs(call'.arg, <<"l","s">>) =>
                ret'.val = cmd_ls(Now, GlobExpand(Now, Operand(call'.arg, <<"l","s">>))).out
          /\ (call'.arg = <<"r","m"," ","-","v"," ","*",".","t","x","t">>
                /\ Keys(getNode(Now, currentPath)) = << <<"a",".","t","x","t">>, <<"b",".","t","x","t">>, <<"c",".","l","o","g">> >>) =>
                /\ ret'.val = <<"r","e","m","o","v","e","d"," ","'","a",".","t","x","t","'">> \o <<NL>> \o <<"r","e","m","o","v","e","d"," ","'","b",".","t","x","t","'">>
                /\ Keys(getNode([Now EXCEPT !.fs = fileSystem'], currentPath'))
                     = << <<"c",".","l","o","g">> >>
      ]_vars

----------------------------------------------------------------------------
(* SpecGrep: command | grep [-i] [-v] pattern.                             *)

MaxGrepSteps == 2

\* new UnixShell({ username: 'u', fileSystem: { home: { u: { 'README.md', 'notes.txt' } }, tmp: {} } })
GrepTree ==
    Dir(<< Entry(<<"h","o","m","e">>, Dir(<< Entry(uUser, Dir(<< Entry(<<"R","E","A","D","M","E",".","m","d">>, File(<<"#"," ","W","\n","\n","T","h","i","s","\n">>)),
                                                    Entry(<<"n","o","t","e","s",".","t","x","t">>, File(<<"n","1","\n","N","2">>)) >>)) >>)),
           Entry(<<"t","m","p">>, Dir(<<>>)) >>)

InitGrep == Construct(uUser, GrepTree)

\* the filter lines used: the line, and how the claim reads it
GrepCases ==
    { [line |-> <<"l","s"," ","|"," ","g","r","e","p"," ","-","i"," ","r","e","a","d","m","e">>, command |-> <<"l","s">>, args |-> <<>>, i |-> TRUE, v |-> FALSE, p |-> <<"r","e","a","d","m","e">>],
      [line |-> <<"l","s"," ","|"," ","g","r","e","p"," ","r","e","a","d","m","e">>, command |-> <<"l","s">>, args |-> <<>>, i |-> FALSE, v |-> FALSE, p |-> <<"r","e","a","d","m","e">>],
      [line |-> <<"l","s"," ","|"," ","g","r","e","p"," ","-","v"," ","-","i"," ","R","E","A","D","M","E">>, command |-> <<"l","s">>, args |-> <<>>, i |-> TRUE, v |-> TRUE, p |-> <<"R","E","A","D","M","E">>],
      [line |-> <<"l","s"," ","-","a"," ","|"," ","g","r","e","p"," ","\"","t","\"">>, command |-> <<"l","s">>, args |-> << <<"-","a">> >>, i |-> FALSE, v |-> FALSE, p |-> <<"t">>],
      [line |-> <<"c","a","t"," ","n","o","t","e","s",".","t","x","t"," ","|"," ","g","r","e","p"," ","-","i"," ","n","2">>, command |-> <<"c","a","t">>, args |-> << <<"n","o","t","e","s",".","t","x","t">> >>, i |-> TRUE, v |-> FALSE, p |-> <<"n","2">>],
      [line |-> <<"c","a","t"," ","R","E","A","D","M","E",".","m","d"," ","|"," ","g","r","e","p"," ","W">>, command |-> <<"c","a","t">>, args |-> << <<"R","E","A","D","M","E",".","m","d">> >>, i |-> FALSE, v |-> FALSE, p |-> <<"W">>],
      [line |-> <<"c","a","t"," ","R","E","A","D","M","E",".","m","d"," ","|"," ","g","r","e","p"," ","-","v"," ","T","h","i","s">>, command |-> <<"c","a","t">>, args |-> << <<"R","E","A","D","M","E",".","m","d">> >>, i |-> FALSE, v |-> TRUE, p |-> <<"T","h","i","s">>],
      [line |-> <<"c","a","t"," ","R","E","A","D","M","E",".","m","d"," ","|"," ","g","r","e","p"," ","-","v"," ","W">>, command |-> <<"c","a","t">>, args |-> << <<"R","E","A","D","M","E",".","m","d">> >>, i |-> FALSE, v |-> TRUE, p |-> <<"W">>] }

GrepLineSet == { c.line : c \in GrepCases } \cup { <<"t","o","u","c","h"," ","r","e","a","d","m","e","2">>, <<"r","m"," ","n","o","t","e","s",".","t","x","t">>, <<"c","d"," ","/">> }

GrepStep == \E line \in GrepLineSet : Len(commandHistory) < MaxGrepSteps /\ Execute(line)

SpecGrep == InitGrep /\ [][GrepStep]_vars

\* the lines the claim keeps: those containing p (compared in lower case
\* under -i), or under -v those that do not, in their order
RECURSIVE KeptLines(_, _)
KeptLines(lines, c) ==
    IF lines = <<>> THEN <<>>
    ELSE LET has == IF c.i THEN Includes(ToLowerCase(Head(lines)), ToLowerCase(c.p))
                    ELSE Includes(Head(lines), c.p)
         IN  (IF has # c.v THEN <<Head(lines)>> ELSE <<>>) \o KeptLines(Tail(lines), c)

\* the output of the command of case c when a filter is active
PipedOutput(c) == Dispatch([Now EXCEPT !.piped = TRUE], c.command, c.args).out

\* the kept lines of that output, rejoined
KeptText(c) == Join(KeptLines(Split(PipedOutput(c), NL), c), <<NL>>)

----------------------------------------------------------------------------
(* SpecHist: blank lines, unknown commands, failing handlers and failing   *)
(* redirects against the command history.                                  *)

MaxHistSteps == 3

HistLines ==
    { <<>>, <<" "," "," ">>, <<"n","o","p","e"," ","x">>, <<"e","c","h","o"," ","a"," ",">"," ","/","n","o","d","i","r","/","f">>, <<"l","s"," ","(","*">>, <<"t","r","e","e">>, <<"s","u">>, <<"c","d">>,
      <<" "," ","h","i","s","t","o","r","y"," ">> }

HistStep == \E line \in HistLines : Len(commandHistory) < MaxHistSteps /\ Execute(line)

SpecHist == InitSu /\ [][HistStep]_vars

\* C12: every execute call with a non-blank line appends exactly that raw
\* line once, whatever becomes of the command; a blank or whitespace-only
\* line returns "" and appends nothing; no step removes or reorders entries.
C12_HistoryAppendOnly ==
    [][ IF call'.op = "execute" /\ Trim(call'.arg) # <<>>
        THEN commandHistory' = Append(commandHistory, call'.arg)
        ELSE /\ commandHistory' = commandHistory
             /\ call'.op = "execute" => (ret'.val = <<>> /\ ~ret'.thrown)
      ]_vars

\* a handler has failed (tree in a directory that does not exist) and its
\* line is in the history all the same
C12_Witness ==
    /\ commandHistory = << <<"s","u">>, <<"c","d">>, <<"t","r","e","e">> >>
    /\ call = [op |-> "execute", arg |-> <<"t","r","e","e">>]
    /\ StartsWith(ret.val, <<"E","r","r","o","r"," ","e","x","e","c","u","t","i","n","g"," ","t","r","e","e">>)

----------------------------------------------------------------------------
(* SpecPersist: a shell with persistence enabled.  The host runs lines,    *)
(* reloads the page (a new shell on the same prefix) and clears the        *)
(* storage.                                                                *)

MaxPersistSteps == 2

PersistLines ==
    { <<"t","o","S","t","r","i","n","g">>, <<"n","o","p","e">>, <<"m","k","d","i","r"," ","n"," ",">"," ","/","n","o","d","i","r","/","f">>, <<"s","u">>, <<"c","d">>, <<"c","d"," ","c","o","n","s","t","r","u","c","t","o","r">>, <<"t","o","u","c","h"," ","x">>, <<"t","r","e","e">> }

\* another constructor filesystem: a home directory for u2 and nothing else
OtherTree == Dir(<< Entry(<<"h","o","m","e">>, Dir(<< Entry(uOther, Dir(<< Entry(<<"g">>, File(<<"y">>)) >>)) >>)) >>)

InitPersist == ConstructWith(uUser, HomeTree, TRUE, EmptyStorage)

PersistStep ==
    \/ \E line \in PersistLines : Len(commandHistory) < MaxPersistSteps /\ Execute(line)
    \/ \E fs \in {HomeTree, OtherTree} : NewShell(uOther, fs, TRUE)
    \/ ClearStorage

SpecPersist == InitPersist /\ [][PersistStep]_vars

\* the first token of a line
FirstToken(line) == SplitWs(Trim(line))[1]

\* C13 as claimed: when the first token of a line is not a key of the
\* command table, execute returns "{command}: command not found", writes no
\* checkpoint and leaves the filesystem, currentUser, currentPath, the
\* environment and the user stack unchanged.
C13_UnknownCommand ==
    [][ (call'.op = "execute" /\ Trim(call'.arg) # <<>> /\ ~IsRegistered(FirstToken(call'.arg))) =>
          /\ ~ret'.thrown
          /\ ret'.val = FirstToken(call'.arg) \o <<":"," ","c","o","m","m","a","n","d"," ","n","o","t"," ","f","o","u","n","d">>
          /\ localStorage' = localStorage
          /\ fileSystem' = fileSystem
          /\ currentUser' = currentUser
          /\ currentPath' = currentPath
          /\ environment' = environment
          /\ userStack' = userStack
      ]_vars

\* the three items a checkpoint of the current state holds
Checkpoint ==
    [filesystem |-> Item(JsonStringify(fileSystem)), current_user |-> Item(currentUser),
     current_path |-> Item(currentPath)]

\* C14 as claimed: with persistence enabled, after every execute call whose
\* result is not "command not found" the three stored items equal the
\* shell's filesystem (as JSON), currentUser and currentPath, also when the
\* redirect write fails or the handler faults.
C14_CheckpointAfterExecute ==
    [][ (persistence /\ call'.op = "execute" /\ ~EndsWith(ret'.val, <<":"," ","c","o","m","m","a","n","d"," ","n","o","t"," ","f","o","u","n","d">>)) =>
          localStorage' = Checkpoint'
      ]_vars

\* C16 as claimed: when the storage holds a checkpoint of the shell's state,
\* a new shell on the same prefix, whatever its constructor filesystem and
\* username, starts with that filesystem, currentUser and currentPath; a new
\* shell constructed after clearStorage starts from its constructor arguments.
C16_PersistRoundTrip ==
    [][ (call'.op = "new" /\ persistence /\ persistence') =>
          /\ localStorage = Checkpoint =>
                /\ fileSystem' = fileSystem
                /\ currentUser' = currentUser
                /\ currentPath' = currentPath
          /\ call.op = "clearStorage" =>
                /\ fileSystem' \in {HomeTree, OtherTree}
                /\ currentUser' = call'.arg
                /\ currentPath' = <<"/","h","o","m","e","/">> \o call'.arg
      ]_vars

----------------------------------------------------------------------------
(* SpecLoad: construction against what the storage holds.  The host page   *)
(* writes and removes the three items itself, runs a line, and constructs  *)
(* a new shell on the prefix.                                              *)

MaxLoadSteps == 1

LoadLines == { <<"c","d"," ","c","o","n","s","t","r","u","c","t","o","r">>, <<"t","o","u","c","h"," ","x">>, <<"c","d"," ","d">> }

\* what the host page may put under each key
HostItems ==
    [filesystem |-> { NoItem, Item(<<>>), Item(<<"{","\"","/","\"",":">>), Item(<<"{","}">>), Item(<<"{","\"","/","\"",":","\"","\"","}">>),
                      Item(<<"{","\"","/","\"",":","{","\"","a","\"",":","{","}","}","}">>) },
     current_user |-> { NoItem, Item(<<"w">>) },
     current_path |-> { NoItem, Item(<<"/","a">>), Item(<<"/","b">>) }]

LoadStep ==
    \/ \E line \in LoadLines : Len(commandHistory) < MaxLoadSteps /\ Execute(line)
    \/ \E fs \in {HomeTree, OtherTree} : NewShell(uOther, fs, TRUE)
    \/ \E key \in DOMAIN HostItems : \E item \in HostItems[key] : HostSetItem(key, item)

SpecLoad == InitPersist /\ [][LoadStep]_vars

\* the node a path names in a tree, Null when there is none
RECURSIVE NodeAt(_, _)
NodeAt(node, parts) ==
    IF parts = <<>> THEN node
    ELSE IF IsDir(node) /\ HasOwn(node, Head(parts))
         THEN NodeAt(Child(node, Head(parts)), Tail(parts))
         ELSE Null

\* the conditions for adopting the stored state that the claim names
Adoptable(storage) ==
    /\ storage.filesystem.has /\ storage.current_user.has /\ storage.current_path.has
    /\ JsonParse(storage.filesystem.text).ok
    /\ IsDir(JsonParse(storage.filesystem.text).v)
    /\ HasOwn(JsonParse(storage.filesystem.text).v, <<SLASH>>)
    /\ NodeAt(Child(JsonParse(storage.filesystem.text).v, <<SLASH>>),
              PathParts(storage.current_path.text)) # Null

\* C15 as claimed: construction with persistence enabled adopts the stored
\* state only if all three items are present, the filesystem text parses,
\* the parsed value has a root entry and the stored path resolves to an
\* existing node of the stored tree; otherwise it does not throw and the
\* shell starts with the constructor filesystem, the given username and
\* currentPath /home/{username}.
C15_LoadOrFallBack ==
    [][ (call'.op = "new" /\ persistence') =>
          /\ ~ret'.thrown
          /\ ~Adoptable(localStorage) =>
                /\ fileSystem' \in {HomeTree, OtherTree}
                /\ currentUser' = call'.arg
                /\ currentPath' = <<"/","h","o","m","e","/">> \o call'.arg
      ]_vars

----------------------------------------------------------------------------
(* SpecSudo: lines run under sudo and without it, as u and as root.        *)

MaxSudoSteps == 2

SudoLines ==
    { <<"s","u","d","o"," ","m","k","d","i","r"," ","/","e","t","c","/","x">>, <<"s","u","d","o"," ","m","k","d","i","r"," ","n">>, <<"s","u","d","o"," ","t","o","u","c","h"," ","/","e","t","c","/","y">>, <<"s","u","d","o"," ","r","m"," ","f">>, <<"s","u","d","o"," ","c","d"," ","/","t","m","p">>,
      <<"s","u","d","o"," ","l","s"," ","-","a">>, <<"s","u","d","o"," ","e","c","h","o"," ","h","i"," ",">"," ","g">>, <<"s","u","d","o"," ","w","h","o","a","m","i">>, <<"s","u","d","o"," ","h","i","s","t","o","r","y">>, <<"s","u","d","o"," ","e","x","i","t">>,
      <<"s","u","d","o"," ","s","u","d","o"," ","w","h","o","a","m","i">>, <<"s","u","d","o"," ","s","u"," ","u","2">>, <<"s","u","d","o"," ","s","u">>, <<"s","u","d","o"," ","n","o","p","e">>, <<"s","u">>, <<"e","x","i","t">> }

SudoStep == \E line \in SudoLines : Len(commandHistory) < MaxSudoSteps /\ Execute(line)

SpecSudo == InitSu /\ [][SudoStep]_vars

\* the line without its leading "sudo "
Unsudo(line) == DropFirst(line, 5)

\* the step has the result r and leaves the state of r; the history apart
SameOutcome(r) ==
    /\ ret'.thrown = r.thrown
    /\ fileSystem' = r.sh.fs
    /\ currentUser' = r.sh.user
    /\ currentPath' = r.sh.path
    /\ environment' = r.sh.env
    /\ userStack' = r.sh.stack

\* a step that runs "sudo c args" for a registered command c
SudoCall ==
    /\ call'.op = "execute"
    /\ Runs(call'.arg, <<"s","u","d","o">>)
    /\ IsRegistered(FirstToken(Unsudo(call'.arg)))

----------------------------------------------------------------------------
(* SpecEdit: the host opens a file in the editor as its first command and  *)
(* types.                                                                  *)

MaxEditKeys == 6

\* the files the host opens: 'ab' above an empty line, an empty line above
\* 'a b', one line 'a', and a name that is not there
EditTree ==
    Dir(<< Entry(<<"h","o","m","e">>, Dir(<< Entry(uUser, Dir(<< Entry(<<"e","1">>, File(<<"a","b","\n">>)),
                                                   Entry(<<"e","2">>, File(<<"\n","a"," ","b">>)),
                                                   Entry(<<"e","3">>, File(<<"a">>)) >>)) >>)) >>)

InitEdit == ConstructWith(uUser, EditTree, FALSE, EmptyStorage)

Key(k) == [key |-> k, shiftKey |-> FALSE, ctrlKey |-> FALSE, metaKey |-> FALSE]
Shift(k) == [key |-> k, shiftKey |-> TRUE, ctrlKey |-> FALSE, metaKey |-> FALSE]

\* the keys the host types in each mode
EditKeys ==
    [normal |-> { Key(<<"h">>), Key(<<"j">>), Key(<<"k">>), Key(<<"l">>), Key(<<"0">>), Key(<<"$">>), Shift(<<"g">>),
                  Key(<<"i">>), Key(<<"a">>), Key(<<"o">>), Shift(<<"O">>), Key(<<"x">>), Shift(<<"d">>), Key(<<"d">>),
                  Shift(<<"y">>), Key(<<"p">>), Key(<<":">>), Key(<<"w">>), Key(<<"A","r","r","o","w","U","p">>) },
     insert |-> { Key(<<"a">>), Key(<<" ">>), Key(<<"E","s","c","a","p","e">>), Key(<<"E","n","t","e","r">>), Key(<<"B","a","c","k","s","p","a","c","e">>) },
     command |-> { Key(<<"w">>), Key(<<"q">>), Key(<<"x">>), Key(<<"!">>), Key(<<"E","n","t","e","r">>), Key(<<"E","s","c","a","p","e">>), Key(<<"B","a","c","k","s","p","a","c","e">>) }]

\* vi name as the first command of the session
OpenFile(name) == commandHistory = <<>> /\ Execute(<<"v","i"," ">> \o name)

EditStep ==
    \/ \E name \in {<<"e","1">>, <<"e","2">>, <<"e","3">>, <<"n","e","w">>} : OpenFile(name)
    \/ \E e \in EditKeys[editor.mode] : editor.keys < MaxEditKeys /\ HandleKey(e)
    \/ \E e \in EditKeys[editor.mode] : KeyAfterClose(e)

SpecEdit == InitEdit /\ [][EditStep]_vars

\* C18: the buffer is never empty: after every step lines has at least one
\* element, and dd, dj or dk on a buffer of a single line leaves lines = ['']
\* with the cursor at (0,0).
C18_BufferNeverEmpty ==
    [][ /\ Len(editor'.lines) >= 1
        /\ (/\ call'.op = "key"
            /\ editor.mode = "normal" /\ editor.normalModeBuffer = <<"d">>
            /\ Len(editor.lines) = 1
            /\ call'.arg.key \in {<<"d">>, <<"j">>, <<"k">>, <<"A","r","r","o","w","D","o","w","n">>, <<"A","r","r","o","w","U","p">>}) =>
              /\ editor'.lines = << <<>> >>
              /\ editor'.cursorRow = 0
              /\ editor'.cursorCol = 0
      ]_vars

\* dd has deleted the only line, 'a', of e3
C18_Witness ==
    /\ editor.open /\ editor.filename = <<"e","3">>
    /\ call = [op |-> "key", arg |-> Key(<<"d">>)]
    /\ editor.yankBuffer = <<"a">>
    /\ editor.lines = << <<>> >>
    /\ editor.cursorRow = 0 /\ editor.cursorCol = 0

\* C19 as claimed: after any sequence of key events the cursor is inside the
\* buffer: 0 <= cursorRow <= lines.length - 1 and
\* 0 <= cursorCol <= length of lines[cursorRow].
C19_CursorInBounds ==
    /\ 0 <= editor.cursorRow /\ editor.cursorRow <= Len(editor.lines) - 1
    /\ 0 <= editor.cursorCol /\ editor.cursorCol <= Len(CurLine(editor))

\* the lines of the file as the shell holds it: what the editor was opened
\* on, or what it last wrote
FileLines ==
    IF IsFile(getNode(Now, editor.filename)) /\ getNode(Now, editor.filename).c # <<>>
    THEN Split(getNode(Now, editor.filename).c, NL)
    ELSE << <<>> >>

\* Enter is pressed in command mode on the command cmd
Entered(cmd) ==
    /\ call'.op = "key" /\ call'.arg = Key(<<"E","n","t","e","r">>)
    /\ editor.mode = "command" /\ editor.commandBuffer = cmd

\* C20 as claimed: whenever the keys typed have changed the buffer lines
\* since the editor was opened or last saved, :q does not close the session
\* (no exit notification) and modified stays true; :w makes :q close it.
C20_QuitGuard ==
    [][ /\ (Entered(<<"q">>) /\ editor.lines # FileLines) =>
              /\ editor'.open
              /\ editor'.modified
              /\ editor'.calls = <<>>
        /\ Entered(<<"w">>) => ~editor'.modified
        /\ (Entered(<<"q">>) /\ ~editor.modified /\ editor.lines = FileLines) =>
              /\ ~editor'.open
              /\ Len(editor'.calls) = 1 /\ editor'.calls[1].cb = "exit"
      ]_vars


\* the exit callbacks among the callbacks of the last key event
ExitCalls(ed) == SelectSeq(ed.calls, LAMBDA c : c.cb = "exit")

\* the editor's own data: its fields without the record of the last event
EditorData(ed) == [ed EXCEPT !.calls = <<>>, !.keys = 0]

\* Enter in command mode on a command that closes the session
ClosingEnter ==
    /\ editor.open
    /\ \/ Entered(<<"q">>) /\ ~editor.modified
       \/ Entered(<<"q","!">>)
       \/ Entered(<<"w","q">>)
       \/ Entered(<<"x">>)

\* C21: the exit notification fires only when Enter is pressed in command
\* mode on q (with modified false), q!, wq or x, and then exactly once; the
\* session is closed by exactly those key events, so Escape, Backspace, :w,
\* a blocked :q and unknown commands leave it open; after the close no key
\* event changes the editor, the filesystem or invokes a callback.
C21_ExitOnce ==
    [][ call'.op = "key" =>
          /\ ClosingEnter => Len(ExitCalls(editor')) = 1 /\ ~editor'.open
          /\ ~ClosingEnter => ExitCalls(editor') = <<>> /\ editor'.open = editor.open
          /\ ~editor.open => /\ EditorData(editor') = EditorData(editor)
                             /\ editor'.calls = <<>>
                             /\ fileSystem' = fileSystem
      ]_vars

\* a key has been pressed after :q! closed the session on a modified buffer
C21_Witness ==
    /\ ~editor.open /\ editor.modified /\ editor.filename = <<"e","1">>
    /\ call.op = "key" /\ editor.calls = <<>>
    /\ editor.mode = "command"

----------------------------------------------------------------------------
(* SpecComplete: the host asks for completions between commands that move  *)
(* the shell and change the tree.                                          *)

MaxCompleteSteps == 2

CompleteLines ==
    { <<"c","d"," ","d">>, <<"c","d"," ","/">>, <<"s","u">>, <<"c","d">>, <<"m","k","d","i","r"," ","f","o">>, <<"t","o","u","c","h"," ","d","/","f","a">>, <<"r","m"," ","f">> }

\* the inputs of getCompletions the host tries
Partials ==
    { <<>>, <<"l">>, <<"c">>, <<"s","u">>, <<"z","z">>, <<"c","a","t"," ">>, <<" "," ","l","s">>, <<"c","a","t"," ","f">>, <<"c","a","t"," "," ","f","o">>, <<"l","s"," ","d","/">>, <<"l","s"," ","d","/","f">>, <<"c","a","t"," ","x"," ","y"," ",".",".","/">>,
      <<"l","s"," ","/","h","o","m","e","/">>, <<"l","s"," ","/","h","o","m","e","/","u">>, <<"l","s"," ","/">>, <<"l","s"," ","~","/","d">>, <<"c","a","t"," ","f","/">>, <<"c","a","t"," ","n","o","d","i","r","/","x">>, <<"c","a","t"," ","c","o","n","s","t","r","u","c","t","o","r","/">>,
      <<"c","a","t"," ","/","h","o","m","e","/",".",".","/">>, <<"l","s"," ","-","l"," ","e">> }

CompleteStep ==
    \/ \E line \in CompleteLines : Len(commandHistory) < MaxCompleteSteps /\ Execute(line)
    \/ \E partial \in Partials : GetCompletions(partial)

SpecComplete == InitSu /\ [][CompleteStep]_vars

\* the elements of a sequence
Elements(s) == { s[i] : i \in 1..Len(s) }

\* the directory part of a path token, up to and including its last slash,
\* and the shell's node for it; the current directory when there is no slash
DirPartOf(token) ==
    CHOOSE d \in { TakeFirst(token, k) : k \in 0..Len(token) } :
        /\ ~HasChar(DropFirst(token, Len(d)), SLASH)
        /\ d = <<>> \/ Last(d) = SLASH
SearchNode(sh, token) ==
    IF DirPartOf(token) = <<>> THEN getNode(sh, sh.path) ELSE getNode(sh, DirPartOf(token))

\* the names completion offers in a directory: the own entries that start
\* with the prefix, a slash after those that are directories
Offered(dir, prefix) ==
    { IF IsDir(dir.e[i].v) THEN dir.e[i].n \o <<SLASH>> ELSE dir.e[i].n :
        i \in { j \in 1..Len(dir.e) : StartsWith(dir.e[j].n, prefix) } }

\* C22: getCompletions on one token answers with type command and exactly
\* the registered command names that start with the token; on several
\* tokens it answers with type path and exactly the entries of the last
\* token's directory part (the current directory when it has no slash)
\* whose names start with the rest, directories with a slash appended; a
\* missing or non-directory search directory gives no matches; the call
\* changes no shell state.
C22_Completions ==
    [][ call'.op = "getCompletions" =>
          /\ shellVars' = shellVars
          /\ \A tokens \in {SplitWs(Trim(call'.arg))} : \A found \in {Elements(ret'.val.matches)} :
                /\ Cardinality(found) = Len(ret'.val.matches)
                /\ Len(tokens) = 1 =>
                      /\ ret'.val.type = "command"
                      /\ found = { c \in Elements(CommandNames) : StartsWith(c, tokens[1]) }
                /\ Len(tokens) > 1 =>
                      /\ ret'.val.type = "path"
                      /\ \A dir \in {SearchNode(Now, Last(tokens))} :
                            found = IF IsDir(dir)
                                    THEN Offered(dir, DropFirst(Last(tokens), Len(DirPartOf(Last(tokens)))))
                                    ELSE {}
      ]_vars

\* after mkdir fo, completing 'cat  fo' in the home directory offers the
\* directory fo/ and not the file f
C22_Witness ==
    /\ call = [op |-> "getCompletions", arg |-> <<"c","a","t"," "," ","f","o">>]
    /\ ret.val.type = "path" /\ ret.val.matches = << <<"f","o","/">> >>
    /\ currentPath = <<"/","h","o","m","e","/","u">>

\* a key event reaches the open editor in the given mode
KeyIn(mode) == call'.op = "key" /\ editor.open /\ editor.mode = mode

\* the key of the event, with and without Shift
Pressed(k) == call'.arg.key = k
Unshifted(k) == call'.arg.key = k /\ ~call'.arg.shiftKey
Shifted(k) == call'.arg.key = k /\ call'.arg.shiftKey

\* the keys that take normal mode to insert mode
InsertKey == Pressed(<<"i">>) \/ Pressed(<<"a">>) \/ Pressed(<<"o">>) \/ Shifted(<<"O">>)

\* Enter on a command after which the session goes on in normal mode
ResumingEnter ==
    /\ Pressed(<<"E","n","t","e","r">>)
    /\ \/ editor.commandBuffer = <<"w">>
       \/ editor.commandBuffer = <<"q">> /\ editor.modified
       \/ editor.commandBuffer \notin {<<"w">>, <<"q">>, <<"q","!">>, <<"w","q">>, <<"x">>}

\* C23: the mode machine.  The mode changes only from normal to insert on
\* i, a, o, O, from normal to command on ':' (which empties the command
\* buffer), from insert to normal on Escape (the column decremented, not
\* below 0), and from command to normal on Escape, on Enter for w, a blocked
\* q or an unknown command, and on a Backspace that leaves the command
\* buffer empty; with no delete pending those keys do change it, and every
\* other key in every mode leaves the mode unchanged.
C23_ModeMachine ==
    [][ /\ KeyIn("normal") =>
              /\ editor'.mode \in {"normal", "insert", "command"}
              /\ editor'.mode = "insert" => InsertKey
              /\ editor'.mode = "command" => Pressed(<<":">>) /\ editor'.commandBuffer = <<>>
              /\ (editor.normalModeBuffer = <<>> /\ InsertKey) => editor'.mode = "insert"
              /\ (editor.normalModeBuffer = <<>> /\ Pressed(<<":">>)) => editor'.mode = "command"
        /\ KeyIn("insert") =>
              /\ editor'.mode = IF Pressed(<<"E","s","c","a","p","e">>) THEN "normal" ELSE "insert"
              /\ Pressed(<<"E","s","c","a","p","e">>) =>
                    editor'.cursorCol = IF editor.cursorCol > 0 THEN editor.cursorCol - 1 ELSE 0
        /\ KeyIn("command") =>
              editor'.mode = IF \/ Pressed(<<"E","s","c","a","p","e">>)
                                \/ ResumingEnter
                                \/ Pressed(<<"B","a","c","k","s","p","a","c","e">>) /\ Len(editor.commandBuffer) <= 1
                             THEN "normal" ELSE "command"
      ]_vars

\* Escape has left insert mode after two characters were typed into e3
C23_Witness ==
    /\ editor.open /\ editor.filename = <<"e","3">>
    /\ call = [op |-> "key", arg |-> Key(<<"E","s","c","a","p","e">>)]
    /\ editor.mode = "normal" /\ editor.lines = << <<"a","a","a">> >> /\ editor.cursorCol = 1

\* the keys handleDeleteMotion takes as motions
Motions == {<<"d">>, <<"j">>, <<"k">>, <<"$">>, <<"0">>, <<"w">>, <<"l">>, <<"h">>, <<"A","r","r","o","w","D","o","w","n">>, <<"A","r","r","o","w","U","p">>, <<"A","r","r","o","w","L","e","f","t">>, <<"A","r","r","o","w","R","i","g","h","t">>}

\* a delete is pending
Pending(ed) == ed.normalModeBuffer = <<"d">>

\* C24: the delete-pending flag is set only by an unshifted d pressed in
\* normal mode with no delete pending, and is clear after the very next key
\* whatever that key is; a next key that is no motion is consumed as a
\* cancellation: lines, cursor, yank buffer, modified and mode stay as they
\* are (d then i does not enter insert mode, d then ':' does not enter
\* command mode).
C24_DeletePending ==
    [][ (call'.op = "key" /\ editor.open) =>
          /\ editor'.normalModeBuffer \in {<<>>, <<"d">>}
          /\ Pending(editor') <=> (editor.mode = "normal" /\ ~Pending(editor) /\ Unshifted(<<"d">>))
          /\ Pending(editor) => editor.mode = "normal" /\ ~Pending(editor')
          /\ (Pending(editor) /\ call'.arg.key \notin Motions) =>
                /\ editor'.lines = editor.lines
                /\ editor'.cursorRow = editor.cursorRow /\ editor'.cursorCol = editor.cursorCol
                /\ editor'.yankBuffer = editor.yankBuffer
                /\ editor'.modified = editor.modified
                /\ editor'.mode = "normal"
      ]_vars

\* d then i on e1: the editor is still in normal mode with nothing changed
C24_Witness ==
    /\ editor.open /\ editor.filename = <<"e","1">> /\ editor.keys = 2
    /\ call = [op |-> "key", arg |-> Key(<<"i">>)]
    /\ editor.mode = "normal" /\ ~Pending(editor)
    /\ editor.lines = << <<"a","b">>, <<>> >> /\ ~editor.modified

\* what a delete took out of the buffer, read off the lines before and
\* after: whole lines, or a stretch of the current line at the cursor
LinesTaken(before, after, text, n) ==
    \E first \in 0..(Len(before) - n) :
        /\ after = Refill(Splice(before, first, n, <<>>))
        /\ text = Join(SubSeq(before, first + 1, first + n), <<NL>>)
TextTaken(line, after, col, text) ==
    /\ text # <<>>
    /\ text = Slice(line, col, col + Len(text))
    /\ after = Slice(line, 0, col) \o SliceFrom(line, col + Len(text))

\* the status message of a delete
LinesDeletedMessage(n) ==
    IF n = 1 THEN <<"1"," ","l","i","n","e"," ","d","e","l","e","t","e","d">> ELSE <<"2"," ","l","i","n","e","s"," ","d","e","l","e","t","e","d">>

\* C25 as claimed: after a recognised delete-motion (d followed by d, j, k,
\* $, 0, w, l, h or the matching arrow) that removes text or a line from the
\* buffer, the yank buffer holds the deleted text, modified is true and the
\* status message is "N line(s) deleted" or "deleted".
C25_DeleteRecorded ==
    [][ (/\ call'.op = "key" /\ editor.open /\ Pending(editor)
         /\ call'.arg.key \in Motions
         /\ editor'.lines # editor.lines) =>
          /\ editor'.modified
          /\ \/ \E n \in {1, 2} :
                  /\ Len(editor.lines) >= Len(editor'.lines)
                  /\ LinesTaken(editor.lines, editor'.lines, editor'.yankBuffer, n)
                  /\ editor'.message = LinesDeletedMessage(n)
             \/ /\ Len(editor'.lines) = Len(editor.lines)
                /\ editor'.cursorRow = editor.cursorRow
                /\ TextTaken(CurLine(editor), CurLine(editor'), editor'.cursorCol, editor'.yankBuffer)
                /\ editor'.message = <<"d","e","l","e","t","e","d">>
      ]_vars

\* the same for deletes whose deleted text is not the empty string
NonEmptyDeleteRecorded ==
    [][ (/\ call'.op = "key" /\ editor.open /\ Pending(editor)
         /\ call'.arg.key \in Motions
         /\ editor'.lines # editor.lines
         /\ ~(call'.arg.key \in {<<"d">>, <<"j">>, <<"k">>, <<"A","r","r","o","w","D","o","w","n">>, <<"A","r","r","o","w","U","p">>} /\ CurLine(editor) = <<>>)) =>
          /\ editor'.modified
          /\ \/ \E n \in {1, 2} :
                  /\ LinesTaken(editor.lines, editor'.lines, editor'.yankBuffer, n)
                  /\ editor'.message = LinesDeletedMessage(n)
             \/ /\ Len(editor'.lines) = Len(editor.lines)
                /\ editor'.cursorRow = editor.cursorRow
                /\ TextTaken(CurLine(editor), CurLine(editor'), editor'.cursorCol, editor'.yankBuffer)
                /\ editor'.message = <<"d","e","l","e","t","e","d">>
      ]_vars

\* the callbacks a key event has invoked, by name and in order
CallbackNames(ed) == [i \in 1..Len(ed.calls) |-> ed.calls[i].cb]

\* C26: on :wq and :x the save callback is invoked exactly once, with the
\* filename and the buffer lines joined by newline, and strictly before the
\* exit notification; on :w the save callback is invoked once and the exit
\* notification is not; on :q and :q! the save callback is never invoked.
C26_SaveBeforeExit ==
    [][ editor.open =>
          /\ (Entered(<<"w","q">>) \/ Entered(<<"x">>)) =>
                /\ CallbackNames(editor') = <<"save", "exit">>
                /\ editor'.calls[1].filename = editor.filename
                /\ editor'.calls[1].content = Join(editor.lines, <<NL>>)
          /\ Entered(<<"w">>) =>
                /\ CallbackNames(editor') = <<"save">>
                /\ editor'.calls[1].filename = editor.filename
                /\ editor'.calls[1].content = Join(editor.lines, <<NL>>)
          /\ (Entered(<<"q">>) \/ Entered(<<"q","!">>)) =>
                \A i \in 1..Len(editor'.calls) : editor'.calls[i].cb # "save"
      ]_vars

\* :wq after x on e1 has saved 'b' and an empty line, then closed
C26_Witness ==
    /\ ~editor.open /\ editor.filename = <<"e","1">>
    /\ call = [op |-> "key", arg |-> Key(<<"E","n","t","e","r">>)]
    /\ CallbackNames(editor) = <<"save", "exit">>
    /\ editor.calls[1].content = <<"b","\n">>
    /\ getNode(Now, <<"/","h","o","m","e","/","u","/","e","1">>) = File(<<"b","\n">>)

\* the node of the edited file and of the directory it is in, as the shell
\* finds them
EditedNode == getNode(Now, editor.filename)
EditedParent == getNode(Now, ParentPath(resolvePath(Now, editor.filename)))

\* Enter on a command that writes the buffer
WritingEnter == editor.open /\ (Entered(<<"w">>) \/ Entered(<<"w","q">>) \/ Entered(<<"x">>))

\* C27: the round trip between the shell and the editor.  Opening an
\* existing file with vi and issuing :w or :wq (or :x) with the buffer as it
\* was opened leaves the whole filesystem unchanged; doing so for a name
\* that does not exist in an existing directory creates that file with
\* empty content and changes nothing else; and the write overwrites: after
\* any write the file holds the buffer lines joined by newline.
C27_EditorRoundTrip ==
    [][ WritingEnter =>
          /\ (IsFile(EditedNode) /\ editor.lines = FileLines) => fileSystem' = fileSystem
          /\ (EditedNode = Null /\ IsDir(EditedParent) /\ editor.lines = FileLines) =>
                /\ getNode([Now EXCEPT !.fs = fileSystem'], editor.filename) = File(<<>>)
                /\ Update(fileSystem', PathParts(ParentPath(resolvePath(Now, editor.filename))),
                          "delete", PopName(PathParts(resolvePath(Now, editor.filename))), Null)
                      = fileSystem
          /\ (IsFile(EditedNode) \/ (EditedNode = Null /\ IsDir(EditedParent))) =>
                getNode([Now EXCEPT !.fs = fileSystem'], editor.filename)
                   = File(Join(editor.lines, <<NL>>))
      ]_vars

\* :w right after vi e1: the file and the tree are as before
C27_Witness ==
    /\ editor.open /\ editor.filename = <<"e","1">> /\ editor.keys = 3
    /\ call = [op |-> "key", arg |-> Key(<<"E","n","t","e","r">>)]
    /\ editor.message = <<"\"","e","1","\""," ","2","L"," ","w","r","i","t","t","e","n">>
    /\ fileSystem = EditTree

\* the cursor of an editor is inside its buffer
InBounds(ed) ==
    /\ 0 <= ed.cursorRow /\ ed.cursorRow <= Len(ed.lines) - 1
    /\ 0 <= ed.cursorCol /\ ed.cursorCol <= Len(ed.lines[ed.cursorRow + 1])

\* the editor after key event e and then Backspace
ThenBackspace(ed, e) == handleKey(handleKey(ed, e), Key(<<"B","a","c","k","s","p","a","c","e">>))

\* lines and cursor of after are those of before, and modified is set
Restored(before, after) ==
    /\ after.lines = before.lines
    /\ after.cursorRow = before.cursorRow /\ after.cursorCol = before.cursorCol
    /\ after.modified

\* the keys of C28: Enter and the printable characters the host types
UndoneKeys == { Key(<<"E","n","t","e","r">>), Key(<<"a">>), Key(<<" ">>), Key(<<":">>), Shift(<<"G">>) }

\* C28: in insert mode with the cursor inside the bounds, Enter immediately
\* followed by Backspace restores lines, cursorRow and cursorCol, and so
\* does a printable character immediately followed by Backspace; modified
\* is true after the first key and after the second.
C28_InsertThenBackspace ==
    (editor.open /\ editor.mode = "insert" /\ InBounds(editor)) =>
        \A e \in UndoneKeys :
            /\ handleKey(editor, e).modified
            /\ handleKey(editor, e).lines # editor.lines
            /\ Restored(editor, ThenBackspace(editor, e))

\* Backspace in insert mode on e2 has given back the buffer ['', 'a b'] with
\* the cursor at the start of the second line and modified set
C28_Witness ==
    /\ editor.open /\ editor.filename = <<"e","2">> /\ editor.mode = "insert" /\ editor.keys = 4
    /\ call = [op |-> "key", arg |-> Key(<<"B","a","c","k","s","p","a","c","e">>)]
    /\ editor.lines = << <<>>, <<"a"," ","b">> >> /\ editor.cursorRow = 1 /\ editor.cursorCol = 0
    /\ editor.modified

\* C29: no key handled in command mode changes lines, cursorRow, cursorCol
\* or the yank buffer; of the editor's data it can change only the command
\* buffer, the mode, the status message and, on Enter with w, wq or x, the
\* modified flag (which the save clears).
C29_CommandModeFrame ==
    [][ KeyIn("command") =>
          /\ editor'.lines = editor.lines
          /\ editor'.cursorRow = editor.cursorRow /\ editor'.cursorCol = editor.cursorCol
          /\ editor'.yankBuffer = editor.yankBuffer
          /\ editor'.filename = editor.filename
          /\ editor'.normalModeBuffer = editor.normalModeBuffer
          /\ editor'.modified # editor.modified =>
                /\ Pressed(<<"E","n","t","e","r">>) /\ editor.commandBuffer \in {<<"w">>, <<"w","q">>, <<"x">>}
                /\ ~editor'.modified
      ]_vars

\* :w after x at the end of 'ab' in e1: modified is cleared, and the buffer
\* and the cursor are where x left them
C29_Witness ==
    /\ editor.open /\ editor.filename = <<"e","1">> /\ editor.keys = 5
    /\ call = [op |-> "key", arg |-> Key(<<"E","n","t","e","r">>)]
    /\ editor.lines = << <<"a">>, <<>> >> /\ editor.cursorRow = 0 /\ editor.cursorCol = 1
    /\ ~editor.modified /\ editor.mode = "normal"

----------------------------------------------------------------------------
(* SpecRm: rm with and without flags, on files, directories, missing names *)
(* and names under directories the user may not write, as u and as root.   *)

MaxRmSteps == 2

RmLines ==
    { <<"r","m"," ","d">>, <<"r","m"," ","-","f"," ","d">>, <<"r","m"," ","-","v"," ","d"," ","f">>, <<"r","m"," ","-","f"," ","d"," ","f">>, <<"r","m"," ","n","o","f","i","l","e"," ","f">>, <<"r","m"," ","/","e","t","c","/","h","o","s","t","n","a","m","e"," ","f">>,
      <<"r","m"," ","-","f"," ","/","e","t","c","/","h","o","s","t","n","a","m","e">>, <<"r","m"," ","-","f"," ","/","e","t","c","/","n","o","f","i","l","e"," ","f">>, <<"r","m"," ","-","f","v"," ","/","t","m","p"," ","f">>, <<"r","m"," ","-","r"," ","d">>, <<"r","m"," ","-","r","f"," ","/","e","t","c"," ","d">>,
      <<"r","m"," ","-","-","f","o","r","c","e"," ","d">>, <<"r","m"," ","/","t","m","p"," ","/","e","t","c","/","h","o","s","t","n","a","m","e">>, <<"s","u">>, <<"t","o","u","c","h"," ","d","/","e">> }

RmStep == \E line \in RmLines : Len(commandHistory) < MaxRmSteps /\ Execute(line)

SpecRm == InitSu /\ [][RmStep]_vars

\* the arguments of the rm line being executed
RmArgs == SplitWs(Operand(call'.arg, <<"r","m">>))

\* a cluster of one-letter options such as -rf, and whether one of them
\* holds the letter c
IsShortOptions(arg) == StartsWith(arg, <<"-">>) /\ ~StartsWith(arg, <<"-","-">>)
HasOption(args, c) == \E i \in 1..Len(args) : IsShortOptions(args[i]) /\ HasChar(args[i], c)

\* the operands of rm: the arguments that are no options
RmOperands(args) == { args[i] : i \in { j \in 1..Len(args) : ~StartsWith(args[j], <<"-">>) } }

\* the paths whose nodes are compared before and after
RmProbes == { <<"/">>, <<"/","h","o","m","e">>, <<"/","h","o","m","e","/","u">>, <<"/","h","o","m","e","/","u","/","d">>, <<"/","h","o","m","e","/","u","/","d","/","e">>, <<"/","h","o","m","e","/","u","/","f">>, <<"/","h","o","m","e","/","u","2">>,
              <<"/","e","t","c">>, <<"/","e","t","c","/","h","o","s","t","n","a","m","e">>, <<"/","t","m","p">> }

\* the node at a path before and after the step
NodeBefore(path) == getNode(Now, path)
NodeAfter(path) == getNode([Now EXCEPT !.fs = fileSystem'], path)

\* rm's message about a target
RmMessage(target, reason) == <<"r","m",":"," ","c","a","n","n","o","t"," ","r","e","m","o","v","e"," ","'">> \o target \o <<"'",":"," ">> \o reason

\* the rules of rm on the step being taken
RmRulesHold ==
    /\ ~(HasOption(RmArgs, "r") \/ HasOption(RmArgs, "R")) =>
          \A p \in RmProbes : IsDir(NodeBefore(p)) => IsDir(NodeAfter(p))
    /\ \A t \in RmOperands(RmArgs) :
          /\ ~canWrite(Now, ParentPath(resolvePath(Now, t))) =>
                /\ NodeAfter(t) = NodeBefore(t)
                /\ Includes(ret'.val, RmMessage(t, <<"P","e","r","m","i","s","s","i","o","n"," ","d","e","n","i","e","d">>))
          /\ (/\ canWrite(Now, ParentPath(resolvePath(Now, t)))
              /\ \/ IsFile(NodeBefore(t))
                 \/ IsDir(NodeBefore(t)) /\ (HasOption(RmArgs, "r") \/ HasOption(RmArgs, "R"))) =>
                NodeAfter(t) = Null
          /\ HasOption(RmArgs, "f") =>
                /\ ~Includes(ret'.val, RmMessage(t, <<"N","o"," ","s","u","c","h"," ","f","i","l","e"," ","o","r"," ","d","i","r","e","c","t","o","r","y">>))
                /\ ~Includes(ret'.val, RmMessage(t, <<"I","s"," ","a"," ","d","i","r","e","c","t","o","r","y">>))
          /\ (~HasOption(RmArgs, "f") /\ canWrite(Now, ParentPath(resolvePath(Now, t)))) =>
                /\ NodeBefore(t) = Null => Includes(ret'.val, RmMessage(t, <<"N","o"," ","s","u","c","h"," ","f","i","l","e"," ","o","r"," ","d","i","r","e","c","t","o","r","y">>))
                /\ (IsDir(NodeBefore(t)) /\ ~(HasOption(RmArgs, "r") \/ HasOption(RmArgs, "R"))) =>
                      Includes(ret'.val, RmMessage(t, <<"I","s"," ","a"," ","d","i","r","e","c","t","o","r","y">>))

\* C30 as claimed: rm without -r never removes a directory, with or without
\* -f; -f only suppresses the not-found and is-directory messages; a target
\* whose parent path the user may not write is never removed and always
\* yields "Permission denied", even under -f; each target is decided on its
\* own, so a failing target does not prevent the removal of the others.
C30_RmRules ==
    [][ (call'.op = "execute" /\ Runs(call'.arg, <<"r","m">>)) => RmRulesHold ]_vars

\* the same for rm lines whose options are all clusters of one-letter options
RmRulesOfShortOptions ==
    [][ (/\ call'.op = "execute" /\ Runs(call'.arg, <<"r","m">>)
         /\ \A i \in 1..Len(RmArgs) : ~StartsWith(RmArgs[i], <<"-","-">>)) => RmRulesHold ]_vars

----------------------------------------------------------------------------
(* SpecCd: cd to directories, files, missing and inherited names, with and *)
(* without operand, as u and as root.                                      *)

MaxCdSteps == 2

CdLines ==
    { <<"c","d">>, <<"c","d"," ","~">>, <<"c","d"," ","d">>, <<"c","d"," ","f">>, <<"c","d"," ","n","o","d","i","r">>, <<"c","d"," ",".",".">>, <<"c","d"," ","/","e","t","c">>, <<"c","d"," ","/","h","o","m","e","/">>, <<"c","d"," ","~","/","d">>,
      <<"c","d"," ","/","e","t","c","/","h","o","s","t","n","a","m","e">>, <<"c","d"," ","c","o","n","s","t","r","u","c","t","o","r">>, <<"s","u">>, <<"e","x","i","t">>,
             <<"r","m"," ","-","r"," ","/","h","o","m","e","/","u","/","d">>, <<"s","u","d","o"," ","s","u"," ","u","2">> }

CdStep == \E line \in CdLines : Len(commandHistory) < MaxCdSteps /\ Execute(line)

SpecCd == InitSu /\ [][CdStep]_vars

\* the operand of the cd line being executed, '' when there is none
CdOperand == IF call'.arg = <<"c","d">> THEN <<>> ELSE Operand(call'.arg, <<"c","d">>)

\* the step executes cd
CdRuns == call'.op = "execute" /\ (call'.arg = <<"c","d">> \/ Runs(call'.arg, <<"c","d">>))

\* cd has left the working directory where it was
CdStayed == currentPath' = currentPath /\ environment'.PWD = environment.PWD

\* cd has gone to path
CdWentTo(path) == currentPath' = path /\ environment'.PWD = path /\ ret'.val = <<>>

\* the rules of cd for an operand other than ~ on the step being taken
CdOperandRules ==
    /\ (~IsDir(NodeBefore(CdOperand)) /\ ~IsFile(NodeBefore(CdOperand))) =>
          /\ ret'.val = <<"c","d",":"," ">> \o CdOperand \o <<":"," ","N","o"," ","s","u","c","h"," ","f","i","l","e"," ","o","r"," ","d","i","r","e","c","t","o","r","y">>
          /\ CdStayed
    /\ IsFile(NodeBefore(CdOperand)) =>
          /\ ret'.val = <<"c","d",":"," ">> \o CdOperand \o <<":"," ","N","o","t"," ","a"," ","d","i","r","e","c","t","o","r","y">>
          /\ CdStayed
    /\ IsDir(NodeBefore(CdOperand)) => CdWentTo(resolvePath(Now, CdOperand))

\* cd changes nothing but the working directory
CdFrame ==
    /\ fileSystem' = fileSystem
    /\ currentUser' = currentUser
    /\ userStack' = userStack
    /\ environment'.HOME = environment.HOME /\ environment'.USER = environment.USER

\* C31 as claimed: cd p to a missing path returns "cd: p: No such file or
\* directory" and to a file "cd: p: Not a directory", both leaving
\* currentPath and environment.PWD unchanged; a successful cd p sets both to
\* the resolved path and returns ""; cd with no argument and cd ~ set both
\* to environment.HOME; cd never changes the filesystem, the user or the
\* user stack.
C31_CdRules ==
    [][ CdRuns =>
          /\ CdFrame
          /\ CdOperand \in {<<>>, <<"~">>} => CdWentTo(environment.HOME)
          /\ CdOperand \notin {<<>>, <<"~">>} => CdOperandRules
      ]_vars

\* the same where the operand is no name inherited from Object.prototype
\* and cd ~ is used with a home directory that exists
CdRulesOfOwnNames ==
    [][ (/\ CdRuns
         /\ CdOperand \notin ProtoNames
         /\ CdOperand = <<"~">> => IsDir(NodeBefore(<<"~">>))) =>
          /\ CdFrame
          /\ CdOperand \in {<<>>, <<"~">>} => CdWentTo(environment.HOME)
          /\ CdOperand \notin {<<>>, <<"~">>} => CdOperandRules
      ]_vars

----------------------------------------------------------------------------
(* SpecWrite: redirects onto writable and unwritable targets, with and     *)
(* without a grep filter, from several directories.                        *)

MaxWriteSteps == 2

\* the redirecting lines used: the line, the same line without its
\* redirect, the target and the mode
WriteCases ==
    { [line |-> <<"e","c","h","o"," ","A"," ",">"," ","f">>, plain |-> <<"e","c","h","o"," ","A">>, target |-> <<"f">>, mode |-> "overwrite"],
      [line |-> <<"e","c","h","o"," ","B"," ",">",">"," ","f">>, plain |-> <<"e","c","h","o"," ","B">>, target |-> <<"f">>, mode |-> "append"],
      [line |-> <<"e","c","h","o"," ","A"," ",">"," ","n">>, plain |-> <<"e","c","h","o"," ","A">>, target |-> <<"n">>, mode |-> "overwrite"],
      [line |-> <<"e","c","h","o"," ","B"," ",">",">"," ","n">>, plain |-> <<"e","c","h","o"," ","B">>, target |-> <<"n">>, mode |-> "append"],
      [line |-> <<"e","c","h","o"," ","A"," ",">"," ","d">>, plain |-> <<"e","c","h","o"," ","A">>, target |-> <<"d">>, mode |-> "overwrite"],
      [line |-> <<"e","c","h","o"," ","A"," ",">",">"," ","/","t","m","p">>, plain |-> <<"e","c","h","o"," ","A">>, target |-> <<"/","t","m","p">>, mode |-> "append"],
      [line |-> <<"e","c","h","o"," ","A"," ",">"," ","n","o","/","x">>, plain |-> <<"e","c","h","o"," ","A">>, target |-> <<"n","o","/","x">>, mode |-> "overwrite"],
      [line |-> <<"e","c","h","o"," ","A"," ",">"," ","f","/","x">>, plain |-> <<"e","c","h","o"," ","A">>, target |-> <<"f","/","x">>, mode |-> "overwrite"],
      [line |-> <<"e","c","h","o"," ","A"," ",">",">"," ","h","o","s","t","n","a","m","e","/","x">>, plain |-> <<"e","c","h","o"," ","A">>, target |-> <<"h","o","s","t","n","a","m","e","/","x">>, mode |-> "append"],
      [line |-> <<"e","c","h","o"," ","A"," ",">"," ","/">>, plain |-> <<"e","c","h","o"," ","A">>, target |-> <<"/">>, mode |-> "overwrite"],
      [line |-> <<"e","c","h","o"," ","A"," ",">"," ",".",".">>, plain |-> <<"e","c","h","o"," ","A">>, target |-> <<".",".">>, mode |-> "overwrite"],
      [line |-> <<"l","s"," ","|"," ","g","r","e","p"," ","f"," ",">"," ","g">>, plain |-> <<"l","s"," ","|"," ","g","r","e","p"," ","f">>, target |-> <<"g">>, mode |-> "overwrite"],
      [line |-> <<"l","s"," ","-","a"," ","|"," ","g","r","e","p"," ","-","v"," ","f"," ",">",">"," ","f">>, plain |-> <<"l","s"," ","-","a"," ","|"," ","g","r","e","p"," ","-","v"," ","f">>, target |-> <<"f">>, mode |-> "append"],
      [line |-> <<"c","a","t"," ","f"," ","|"," ","g","r","e","p"," ","-","i"," ","a"," ",">"," ","n">>, plain |-> <<"c","a","t"," ","f"," ","|"," ","g","r","e","p"," ","-","i"," ","a">>, target |-> <<"n">>, mode |-> "overwrite"] }

WriteLines == { c.line : c \in WriteCases } \cup { <<"c","d"," ","/","t","m","p">>, <<"c","d"," ","/","e","t","c">>, <<"c","d"," ","/">> }

WriteStep == \E line \in WriteLines : Len(commandHistory) < MaxWriteSteps /\ Execute(line)

SpecWrite == InitSu /\ [][WriteStep]_vars

\* the full path of the target of case c and of its parent, before the call
TargetPath(c) == resolvePath(Now, c.target)
TargetParent(c) == ParentPath(TargetPath(c))

\* the target of case c cannot be written: its parent directory is missing,
\* its parent is a file, or it is an existing directory
Unwritable(c) ==
    \/ NodeBefore(TargetParent(c)).k = "null"
    \/ IsFile(NodeBefore(TargetParent(c)))
    \/ IsDir(NodeBefore(TargetPath(c)))

\* what the line of case c returns without its redirect
PlainOutput(c) == execute(Now, c.plain).val

\* the content the claim gives the target of case c after a successful write
Written(c) ==
    IF c.mode = "append" /\ IsFile(NodeBefore(TargetPath(c)))
    THEN NodeBefore(TargetPath(c)).c \o PlainOutput(c) ELSE PlainOutput(c)

RedirectRules(c) ==
    /\ Unwritable(c) => /\ StartsWith(ret'.val, <<"b","a","s","h",":"," ">> \o c.target \o <<":"," ">>)
                        /\ NodeAfter(TargetPath(c)) = NodeBefore(TargetPath(c))
                        /\ NodeAfter(TargetParent(c)) = NodeBefore(TargetParent(c))
    /\ ~Unwritable(c) => /\ ret'.val = <<>>
                         /\ NodeAfter(TargetPath(c)) = File(Written(c))

\* C32: a redirect whose target cannot be written (its parent is missing or
\* a file, or the target is an existing directory) returns the error text
\* "bash: {target}: ..." and leaves the target and its parent as they were;
\* any other redirect returns "" and the target file holds the command's
\* filtered output (after what it held, under >>).
C32_RedirectRules ==
    [][ \A c \in WriteCases : (call'.op = "execute" /\ call'.arg = c.line) => RedirectRules(c) ]_vars

\* the same rules for every target but the root directory
RedirectRulesBelowRoot ==
    [][ \A c \in WriteCases : (call'.op = "execute" /\ call'.arg = c.line /\ TargetPath(c) # <<"/">>)
                                 => RedirectRules(c) ]_vars

----------------------------------------------------------------------------
(* SpecPipe: command | grep [-i] [-v] pattern > file and >> file.          *)

MaxPipeSteps == 2

\* the filtered redirects used: the line, how the claim reads it, the target
\* and the mode
PipeCases ==
    { [line |-> <<"l","s"," ","|"," ","g","r","e","p"," ","-","i"," ","r","e","a","d","m","e"," ",">"," ","o">>, command |-> <<"l","s">>, args |-> <<>>, i |-> TRUE, v |-> FALSE, p |-> <<"r","e","a","d","m","e">>,
       target |-> <<"o">>, mode |-> "overwrite"],
      [line |-> <<"l","s"," ","|"," ","g","r","e","p"," ","n","o","t","e","s"," ",">",">"," ","o">>, command |-> <<"l","s">>, args |-> <<>>, i |-> FALSE, v |-> FALSE, p |-> <<"n","o","t","e","s">>,
       target |-> <<"o">>, mode |-> "append"],
      [line |-> <<"c","a","t"," ","R","E","A","D","M","E",".","m","d"," ","|"," ","g","r","e","p"," ","-","v"," ","W"," ",">"," ","o">>, command |-> <<"c","a","t">>, args |-> << <<"R","E","A","D","M","E",".","m","d">> >>, i |-> FALSE, v |-> TRUE, p |-> <<"W">>,
       target |-> <<"o">>, mode |-> "overwrite"],
      [line |-> <<"c","a","t"," ","R","E","A","D","M","E",".","m","d"," ","|"," ","g","r","e","p"," ","-","v"," ","T","h","i","s"," ",">",">"," ","n","o","t","e","s",".","t","x","t">>, command |-> <<"c","a","t">>, args |-> << <<"R","E","A","D","M","E",".","m","d">> >>, i |-> FALSE, v |-> TRUE, p |-> <<"T","h","i","s">>,
       target |-> <<"n","o","t","e","s",".","t","x","t">>, mode |-> "append"],
      [line |-> <<"c","a","t"," ","n","o","t","e","s",".","t","x","t"," ","|"," ","g","r","e","p"," ","-","i"," ","n","2",">","o">>, command |-> <<"c","a","t">>, args |-> << <<"n","o","t","e","s",".","t","x","t">> >>, i |-> TRUE, v |-> FALSE, p |-> <<"n","2">>,
       target |-> <<"o">>, mode |-> "overwrite"],
      [line |-> <<"t","o","u","c","h"," ","t"," ","|"," ","g","r","e","p"," ","x"," ",">"," ","o">>, command |-> <<"t","o","u","c","h">>, args |-> << <<"t">> >>, i |-> FALSE, v |-> FALSE, p |-> <<"x">>,
       target |-> <<"o">>, mode |-> "overwrite"],
      [line |-> <<"l","s"," ","-","a"," ","|"," ","g","r","e","p"," ","-","v"," ","-","i"," ","R","E","A","D","M","E"," ",">",">"," ","/","t","m","p","/","o">>, command |-> <<"l","s">>, args |-> << <<"-","a">> >>, i |-> TRUE, v |-> TRUE, p |-> <<"R","E","A","D","M","E">>,
       target |-> <<"/","t","m","p","/","o">>, mode |-> "append"],
      [line |-> <<"e","c","h","o"," ","a"," ","b"," ","|"," ","g","r","e","p"," ","\"","a","\""," ",">"," ","o">>, command |-> <<"e","c","h","o">>, args |-> << <<"a">>, <<"b">> >>, i |-> FALSE, v |-> FALSE, p |-> <<"a">>,
       target |-> <<"o">>, mode |-> "overwrite"] }

PipeLines == { c.line : c \in PipeCases } \cup { <<"c","d"," ","/","t","m","p">>, <<"c","d"," ","/">>, <<"r","m"," ","R","E","A","D","M","E",".","m","d">> }

PipeStep == \E line \in PipeLines : Len(commandHistory) < MaxPipeSteps /\ Execute(line)

SpecPipe == InitGrep /\ [][PipeStep]_vars

\* the names a filtered redirect could touch in the current directory, and
\* the files of the tree
PipeProbes ==
    { resolvePath(Now, name) : name \in { <<"o">>, <<"t">>, <<"x">>, <<"g","r","e","p">>, <<"|">>, <<">">>, <<">",">">>, <<"r","e","a","d","m","e">>, <<"n","o","t","e","s">>, <<"R","E","A","D","M","E",".","m","d">>, <<"n","o","t","e","s",".","t","x","t">> } }
        \cup { <<"/","t","m","p","/","o">>, <<"/","h","o","m","e","/","u","/","R","E","A","D","M","E",".","m","d">>, <<"/","h","o","m","e","/","u","/","n","o","t","e","s",".","t","x","t">> }

\* the shell after the command of case c alone has run under a filter
AfterCommand(c) == Dispatch([Now EXCEPT !.piped = TRUE], c.command, c.args).sh

\* the filtered output of case c: the kept lines rejoined, less the last of
\* two final newlines
FilteredOutput(c) ==
    IF EndsWith(KeptText(c), <<NL, NL>>) THEN Front(KeptText(c)) ELSE KeptText(c)

PipeWritten(c, after) ==
    IF c.mode = "append" /\ IsFile(getNode(after, c.target))
    THEN getNode(after, c.target).c \o FilteredOutput(c) ELSE FilteredOutput(c)

PipeRules(c, after) ==
    /\ ret'.val = <<>>
    /\ ~ret'.thrown
    /\ NodeAfter(c.target) = File(PipeWritten(c, after))
    /\ \A probe \in PipeProbes \ {resolvePath(Now, c.target)} : NodeAfter(probe) = getNode(after, probe)
    /\ <<currentUser', currentPath', environment', userStack'>> = <<currentUser, currentPath, environment, userStack>>

OutsideHome == { <<"/","e","t","c">>, <<"/","t","m","p">>, <<"/","h","o","m","e","/","u","2">> }

\* C34: while the current user is a user other than root, no execute call,
\* redirecting or not, changes, creates or removes a node outside that
\* user's home directory.
C34_WriteConfinement ==
    [][ (call'.op = "execute" /\ currentUser # <<"r","o","o","t">>) =>
          /\ \A probe \in OutsideHome : NodeAfter(probe) = NodeBefore(probe)
          /\ Keys(NodeAfter(<<"/">>)) = Keys(NodeBefore(<<"/">>))
          /\ Keys(NodeAfter(<<"/","h","o","m","e">>)) = Keys(NodeBefore(<<"/","h","o","m","e">>)) ]_vars

\* C35: the shell was constructed in an existing directory, and after any
\* sequence of execute calls currentPath still names an existing directory.
C35_WorkingDirectoryExists == IsDir(getNode(Now, currentPath))

\* C36: after construction and after every execute call of built-in
\* commands, environment.USER is the current user and environment.PWD the
\* current path.
C36_EnvironmentMirrors ==
    /\ environment.USER = currentUser
    /\ environment.PWD = currentPath

\* u has moved to /etc and become u2 through sudo su
C36_Witness ==
    /\ commandHistory = << <<"c","d"," ","/","e","t","c">>, <<"s","u","d","o"," ","s","u"," ","u","2">> >>
    /\ Len(userStack) = 1
    /\ environment.USER = <<"u","2">>
    /\ environment.PWD = <<"/","e","t","c">>

----------------------------------------------------------------------------
(* SpecSave: the host opens a name the shell cannot write (a directory, a  *)
(* name under a missing directory) or can, changes the buffer and saves.   *)

MaxSaveKeys == 8

SaveNames == { <<"/","h","o","m","e">>, <<"n","o","/","x">>, <<"e","3">> }

SaveKeys ==
    [normal |-> { Key(<<"o">>), Key(<<":">>) },
     insert |-> { Key(<<"E","s","c","a","p","e">>) },
     command |-> { Key(<<"w">>), Key(<<"q">>), Key(<<"x">>), Key(<<"E","n","t","e","r">>) }]

SaveStep ==
    \/ \E name \in SaveNames : OpenFile(name)
    \/ \E e \in SaveKeys[editor.mode] : editor.keys < MaxSaveKeys /\ HandleKey(e)
    \/ \E e \in SaveKeys[editor.mode] : KeyAfterClose(e)

SpecSave == InitEdit /\ [][SaveStep]_vars

\* the save callback of the open editor would return false on its buffer
WriteFails == writeToFile(Now, editor.filename, Join(editor.lines, <<NL>>), "overwrite").err # <<>>

\* C37: the editor ignores what the save callback returns: when the write
\* fails, :w still clears modified and reports '... written', :wq and :x
\* still close the editor, the filesystem is as it was, and :q on a buffer
\* that is not modified closes the editor.
C37_SaveResultIgnored ==
    [][ editor.open =>
          /\ (WriteFails /\ Entered(<<"w">>)) =>
                /\ editor'.open
                /\ ~editor'.modified
                /\ editor'.message = <<"\"">> \o editor.filename \o <<"\""," ">> \o NatStr(Len(editor.lines)) \o <<"L"," ","w","r","i","t","t","e","n">>
                /\ fileSystem' = fileSystem
          /\ (WriteFails /\ (Entered(<<"w","q">>) \/ Entered(<<"x">>))) =>
                /\ ~editor'.open
                /\ CallbackNames(editor') = <<"save", "exit">>
                /\ fileSystem' = fileSystem
          /\ (Entered(<<"q">>) /\ ~editor.modified) => ~editor'.open
      ]_vars

\* /home was opened, a line was added, :w failed to write it and :q closed
\* the editor all the same
C37_Witness ==
    /\ ~editor.open
    /\ editor.filename = <<"/","h","o","m","e">>
    /\ Len(editor.lines) = 2
    /\ CallbackNames(editor) = <<"exit">>
    /\ editor.keys = 8
    /\ IsDir(getNode(Now, <<"/","h","o","m","e">>))

----------------------------------------------------------------------------
\* no line of the buffer of ed holds a newline
NewlineFree(ed) == \A i \in 1..Len(ed.lines) : ~HasChar(ed.lines[i], NL)

\* C38: after any sequence of key events no element of lines contains a
\* newline character, so the saved content splits on newlines into exactly
\* lines; this includes p after dj or dk.
C38_LinesNewlineFree ==
    /\ NewlineFree(editor)
    /\ Split(Join(editor.lines, <<NL>>), NL) = editor.lines

\* opening a file gives newline-free lines, and every key event keeps them
\* so but p on a yank buffer that holds a newline
NewlineFreeKept ==
    [][ /\ (call'.op = "execute" /\ editor'.open) => NewlineFree(editor')
        /\ (call'.op = "key" /\ NewlineFree(editor)
              /\ ~(editor.mode = "normal" /\ call'.arg.key = <<"p">> /\ HasChar(editor.yankBuffer, NL)))
             => NewlineFree(editor') ]_vars

----------------------------------------------------------------------------
(* SpecKind: redirects, mkdir, touch and rm on existing files and          *)
(* directories, as u and as root.                                          *)

MaxKindSteps == 2

\* redirects onto existing directories: the line and its target
DirRedirects ==
    { [line |-> <<"e","c","h","o"," ","A"," ",">"," ","d">>, target |-> <<"d">>],
      [line |-> <<"e","c","h","o"," ","A"," ",">",">"," ","/","e","t","c">>, target |-> <<"/","e","t","c">>],
      [line |-> <<"e","c","h","o"," ","A"," ",">"," ","/">>, target |-> <<"/">>] }

KindLines ==
    { c.line : c \in DirRedirects }
       \cup { <<"e","c","h","o"," ","A"," ",">"," ","f">>, <<"e","c","h","o"," ","A"," ",">"," ","d","/","f">>, <<"m","k","d","i","r"," ","f">>, <<"m","k","d","i","r"," ","d">>, <<"m","k","d","i","r"," ","/">>, <<"m","k","d","i","r"," ","n">>, <<"t","o","u","c","h"," ","f">>, <<"t","o","u","c","h"," ","d">>, <<"t","o","u","c","h"," ","/">>,
              <<"t","o","u","c","h"," ","d","/","n">>, <<"r","m"," ","f">>, <<"r","m"," ","d">>, <<"r","m"," ","-","f"," ","d">>, <<"r","m"," ","-","r"," ","d">>, <<"r","m"," ","-","-","f","o","r","c","e"," ","d">>, <<"s","u">>, <<"c","d"," ","/">> }

KindStep == \E line \in KindLines : Len(commandHistory) < MaxKindSteps /\ Execute(line)

SpecKind == InitSu /\ [][KindStep]_vars

\* the paths whose nodes are compared before and after
KindProbes ==
    { <<"/">>, <<"/","h","o","m","e">>, <<"/","h","o","m","e","/","u">>, <<"/","h","o","m","e","/","u","/","d">>, <<"/","h","o","m","e","/","u","/","f">>, <<"/","h","o","m","e","/","u","/","d","/","f">>, <<"/","h","o","m","e","/","u","/","d","/","n">>, <<"/","h","o","m","e","/","u","/","n">>, <<"/","h","o","m","e","/","u","2">>,
      <<"/","e","t","c">>, <<"/","e","t","c","/","h","o","s","t","n","a","m","e">>, <<"/","t","m","p">>, <<"/","d">>, <<"/","f">> }

\* the line being executed runs command on an operand that exists
OnExisting(command) ==
    /\ call'.op = "execute" /\ Runs(call'.arg, command)
    /\ NodeBefore(Operand(call'.arg, command)) # Null

\* the line being executed is rm with r or R among its one-letter options
RecursiveRm ==
    /\ Runs(call'.arg, <<"r","m">>)
    /\ (HasOption(RmArgs, "r") \/ HasOption(RmArgs, "R"))

\* the rules of the claim on the step being taken, for the redirects in cases
KindRules(cases) ==
    /\ \A p \in KindProbes : /\ ~(IsFile(NodeBefore(p)) /\ IsDir(NodeAfter(p)))
                             /\ ~(IsDir(NodeBefore(p)) /\ IsFile(NodeAfter(p)))
                             /\ (IsDir(NodeBefore(p)) /\ ~IsDir(NodeAfter(p))) => RecursiveRm
    /\ \A c \in cases : (call'.arg = c.line /\ IsDir(NodeBefore(c.target))) =>
          /\ ret'.val = <<"b","a","s","h",":"," ">> \o c.target \o <<":"," ","I","s"," ","a"," ","d","i","r","e","c","t","o","r","y">>
          /\ fileSystem' = fileSystem
    /\ (OnExisting(<<"m","k","d","i","r">>) \/ OnExisting(<<"t","o","u","c","h">>)) => fileSystem' = fileSystem

\* C39: no execute call turns an existing file into a directory or an
\* existing directory into a file; a redirect onto an existing directory
\* returns "Is a directory" and changes nothing; mkdir and touch on an
\* existing name change nothing; and a directory is lost, with its entries,
\* only through rm with -r.
C39_KindStable ==
    [][ call'.op = "execute" => KindRules(DirRedirects) ]_vars

\* the same for operands below the root directory and rm with one-letter
\* options
KindStableBelowRoot ==
    [][ (/\ call'.op = "execute"
         /\ call'.arg \notin { <<"m","k","d","i","r"," ","/">>, <<"t","o","u","c","h"," ","/">>, <<"r","m"," ","-","-","f","o","r","c","e"," ","d">> })
           => KindRules({ c \in DirRedirects : c.target # <<"/">> }) ]_vars

----------------------------------------------------------------------------
(* SpecRead: the commands that only report, with and without arguments,    *)
(* errors and filters, between commands that change the session.           *)

MaxReadSteps == 2

ReadOnlyCommands ==
    { <<"l","s">>, <<"c","a","t">>, <<"p","w","d">>, <<"w","h","o","a","m","i">>, <<"e","n","v">>, <<"h","i","s","t","o","r","y">>, <<"t","r","e","e">>, <<"h","e","l","p">>, <<"u","n","a","m","e">>, <<"p","s">>, <<"c","l","e","a","r">>, <<"e","c","h","o">> }

ReadLines ==
    { <<"l","s">>, <<"l","s"," ","-","l","a"," ","/","e","t","c">>, <<"l","s"," ","n","o","d","i","r"," ","f">>, <<"l","s"," ","*">>, <<"c","a","t"," ","f">>, <<"c","a","t"," ","d">>, <<"c","a","t">>, <<"c","a","t"," ","n","o","f","i","l","e">>, <<"p","w","d">>, <<"w","h","o","a","m","i"," ","x">>, <<"e","n","v">>,
      <<"h","i","s","t","o","r","y">>, <<"t","r","e","e">>, <<"h","e","l","p">>, <<"u","n","a","m","e"," ","-","a">>, <<"p","s"," ","a","u","x">>, <<"c","l","e","a","r">>, <<"e","c","h","o"," ","a"," "," ","\"","b","\"">>, <<"e","c","h","o">>, <<"l","s"," ","|"," ","g","r","e","p"," ","f">>,
      <<"c","a","t"," ","f"," ","|"," ","g","r","e","p"," ","-","v"," ","x">>, <<"t","r","e","e"," ","|"," ","g","r","e","p">>, <<"e","c","h","o"," ","a"," ",">"," ","n">>,
      <<"s","u">>, <<"c","d"," ","d">>, <<"c","d"," ","/","e","t","c">>, <<"r","m"," ","-","r"," ","/","h","o","m","e","/","u","/","d">>, <<"t","o","u","c","h"," ","n">> }

ReadStep == \E line \in ReadLines : Len(commandHistory) < MaxReadSteps /\ Execute(line)

SpecRead == InitSu /\ [][ReadStep]_vars

\* the line being executed runs one of the reporting commands and holds no
\* redirect
ReadOnlyCall ==
    /\ call'.op = "execute"
    /\ FirstToken(call'.arg) \in ReadOnlyCommands
    /\ ~HasChar(call'.arg, ">")

====
